---- MODULE Spec2Model ----
(***************************************************************************)
(* A model of the attribute validators of lib/attribute.js (the keyword    *)
(* validators of a JSON-schema validator) and of the orchestrator that     *)
(* dispatches to them.                                                     *)
(*                                                                         *)
(* JSON values, schemas included, are tagged records: the field k is the   *)
(* JavaScript kind of the value.  A schema is an "object" value whose keys *)
(* are the keywords it carries, so that a malformed keyword (anyOf: 5) is  *)
(* a value like any other.  Messages and property paths are strings built  *)
(* the way the code builds them.                                           *)
(***************************************************************************)
EXTENDS Integers, Sequences, FiniteSets, TLC

VARIABLES pc, op, instance, schema, original, path, ret, FORMAT_REGEXPS

vars == <<pc, op, instance, schema, original, path, ret, FORMAT_REGEXPS>>

---------------------------------------------------------------------------
(* JSON values *)

Undefined == [k |-> "undefined"]

Null == [k |-> "null"]

Bool(b) == [k |-> "boolean", b |-> b]

Num(n) == [k |-> "number", n |-> n]

Str(s) == [k |-> "string", s |-> s]

Arr(e) == [k |-> "array", e |-> e]

Obj(f) == [k |-> "object", f |-> f]

NoKeys == [x \in {} |-> Undefined]

EmptyObj == Obj(NoKeys)

\* The order in which `for (key in object)` and Object.keys visit the keys of
\* an object: own keys, each once.  Objects are built with their keys in this
\* order.
KeyOrder ==
  <<"id", "title", "default", "type", "required", "dependencies",
    "properties", "patternProperties", "additionalProperties", "items",
    "additionalItems", "minimum", "exclusiveMinimum", "maximum",
    "exclusiveMaximum", "divisibleBy", "multipleOf", "pattern", "format",
    "minLength", "maxLength", "minItems", "maxItems", "minProperties",
    "maxProperties", "uniqueItems", "enum", "not", "disallow", "allOf",
    "anyOf", "oneOf", "p", "q", "r", "s", "x1", "x2", "y1", "z",
    "0", "1", "2", "3">>

IsObject(v) == v.k = "object"

IsArray(v) == v.k = "array"

HasOwn(v, key) == IsObject(v) /\ key \in DOMAIN v.f

\* v[key] for a string key: an own property of an object, else undefined.
Get(v, key) == IF HasOwn(v, key) THEN v.f[key] ELSE Undefined

\* Some enumeration of a finite set.
SetToSeq(S) == CHOOSE q \in [1..Cardinality(S) -> S] : \A x \in S : \E i \in 1..Cardinality(S) : q[i] = x

Keys(v) ==
  IF IsObject(v)
  THEN SelectSeq(KeyOrder, LAMBDA key : key \in DOMAIN v.f)
       \o SetToSeq(DOMAIN v.f \ {KeyOrder[i] : i \in 1..Len(KeyOrder)})
  ELSE <<>>

\* object[key] = value
Put(v, key, value) == Obj([x \in DOMAIN v.f \cup {key} |-> IF x = key THEN value ELSE v.f[x]])

\* delete object[key]
Delete(v, key) == Obj([x \in DOMAIN v.f \ {key} |-> v.f[x]])

\* array[i] for a 0-based index
At(v, i) == IF IsArray(v) /\ i + 1 \in 1..Len(v.e) THEN v.e[i + 1] ELSE Undefined

\* array[i] = value, for an index inside the array
PutAt(v, i, value) == Arr([v.e EXCEPT ![i + 1] = value])

\* JavaScript truthiness
Truthy(v) ==
  CASE v.k = "undefined" -> FALSE
    [] v.k = "null" -> FALSE
    [] v.k = "boolean" -> v.b
    [] v.k = "number" -> v.n # 0
    [] v.k = "string" -> v.s # ""
    [] OTHER -> TRUE

\* typeof v === 'object'
TypeofObject(v) == v.k \in {"object", "array", "null"}

RECURSIVE ToStr(_)
RECURSIVE JoinFrom(_, _)

\* Array.prototype.join(','): null and undefined elements give ''.
JoinFrom(e, i) ==
  IF i > Len(e) THEN ""
  ELSE (IF e[i].k \in {"undefined", "null"} THEN "" ELSE ToStr(e[i]))
       \o (IF i < Len(e) THEN "," ELSE "")
       \o JoinFrom(e, i + 1)

\* String(v), v + '', v.toString()
ToStr(v) ==
  CASE v.k = "undefined" -> "undefined"
    [] v.k = "null" -> "null"
    [] v.k = "boolean" -> (IF v.b THEN "true" ELSE "false")
    [] v.k = "number" -> ToString(v.n)
    [] v.k = "string" -> v.s
    [] v.k = "array" -> JoinFrom(v.e, 1)
    [] OTHER -> "[object Object]"

\* haystack.indexOf(needle) > -1
Contains(haystack, needle) ==
  \E i \in 1..(Len(haystack) - Len(needle) + 1) :
    SubSeq(haystack, i, i + Len(needle) - 1) = needle

---------------------------------------------------------------------------
(* What a validator hands back: null (or undefined), a message string, a   *)
(* result object with an error list, or a thrown SchemaError.  The field   *)
(* instance is the instance as the call leaves it (written to in place by  *)
(* the validators that propagate defaults).                                *)

RNull(inst) == [kind |-> "null", message |-> "", errors |-> <<>>, instance |-> inst]

RString(msg, inst) == [kind |-> "string", message |-> msg, errors |-> <<>>, instance |-> inst]

RResult(errs, inst) == [kind |-> "result", message |-> "", errors |-> errs, instance |-> inst]

RThrow(msg) == [kind |-> "throw", message |-> msg, errors |-> <<>>, instance |-> Undefined]

Threw(r) == r.kind = "throw"

\* result.valid
Valid(r) == r.kind = "result" /\ r.errors = <<>>

\* An error record: the property path it is addressed at and its message.
Error(property, msg) == [property |-> property, message |-> msg]

\* result.addError(message) addresses the error at the result's own path;
\* result.addError(message, property) at the property given.
addError(errs, msg, property) == Append(errs, Error(property, msg))

\* result.importErrors(res): a string becomes one error at the current path,
\* a result's errors are appended as they are, null adds nothing.
importErrors(errs, res, propertyPath) ==
  CASE res.kind = "string" -> addError(errs, res.message, propertyPath)
    [] res.kind = "result" -> errs \o res.errors
    [] OTHER -> errs

\* The digits-only keys, as array indices.
IndexKeys == <<"0", "1", "2", "3", "4", "5">>

IsIndexKey(key) == \E i \in 1..Len(IndexKeys) : IndexKeys[i] = key

IndexOf(key) == (CHOOSE i \in 1..Len(IndexKeys) : IndexKeys[i] = key) - 1

\* ctx.makeChild(schema, propertyName).propertyPath: the path extended by a
\* property name (dotted, undotted at the root) or by an index (bracketed).
makeChild(propertyPath, name) ==
  IF IsIndexKey(name) THEN propertyPath \o "[" \o name \o "]"
  ELSE IF propertyPath = "" THEN name
  ELSE propertyPath \o "." \o name

\* instance[key] on any value: own property of an object, element of an array.
Prop(v, key) ==
  CASE IsObject(v) -> Get(v, key)
    [] IsArray(v) /\ IsIndexKey(key) -> At(v, IndexOf(key))
    [] v.k = "string" /\ IsIndexKey(key) /\ IndexOf(key) < Len(v.s) ->
         Str(SubSeq(v.s, IndexOf(key) + 1, IndexOf(key) + 1))
    [] OTHER -> Undefined

\* instance[key] = value
SetProp(v, key, value) ==
  CASE IsObject(v) -> Put(v, key, value)
    [] IsArray(v) /\ IsIndexKey(key) /\ IndexOf(key) < Len(v.e) -> PutAt(v, IndexOf(key), value)
    [] OTHER -> v

\* result.instance[key] = res.instance, whatever is stored at the key
WriteBackAlways(inst, key, value) == SetProp(inst, key, value)

\* if (res.instance !== result.instance[key]) result.instance[key] = res.instance
WriteBack(inst, key, value) ==
  IF value # Prop(inst, key) THEN SetProp(inst, key, value) ELSE inst

\* helpers.deepCompareStrict: strict structural equality, key order ignored.
deepCompareStrict(a, b) == a = b

\* The type predicates of the type registry.
TypeNames == {"string", "number", "integer", "boolean", "array", "object", "null", "any"}

types(name, v) ==
  CASE name = "string" -> v.k = "string"
    [] name = "number" -> v.k = "number"
    [] name = "integer" -> v.k = "number"
    [] name = "boolean" -> v.k = "boolean"
    [] name = "array" -> v.k = "array"
    [] name = "object" -> v.k = "object"
    [] name = "null" -> v.k = "null"
    [] OTHER -> v.k # "undefined"

RECURSIVE validateSchema(_, _, _)
RECURSIVE validators(_, _, _, _)

\* this.testType(instance, schema, options, ctx, type): a type name is tested
\* by its predicate, a schema by validating against it, anything else passes.
\* The answer is a validation result: valid for true, one error for false, or
\* the SchemaError the nested validation threw.
testType(inst, type, propertyPath) ==
  IF type.k = "string" /\ type.s \in TypeNames
  THEN (IF types(type.s, inst) THEN RResult(<<>>, inst) ELSE RResult(<<Error(propertyPath, "type")>>, inst))
  ELSE IF IsObject(type) \/ IsArray(type)
  THEN validateSchema(inst, type, propertyPath)
  ELSE RResult(<<>>, inst)

RECURSIVE someType(_, _, _, _)

\* types.some(this.testType.bind(this, instance, schema, options, ctx)),
\* from the i-th type on: the first type that passes or throws, else the
\* last failure
someType(inst, typeList, propertyPath, i) ==
  IF i > Len(typeList) THEN RResult(<<Error(propertyPath, "type")>>, inst)
  ELSE LET next(t) == IF Threw(t) \/ Valid(t) THEN t ELSE someType(inst, typeList, propertyPath, i + 1)
       IN next(testType(inst, typeList[i], propertyPath))

\* v.id && ('<' + v.id + '>') || (v+'')
typeLabel(v) ==
  IF Truthy(Prop(v, "id")) THEN "<" \o ToStr(Prop(v, "id")) \o ">" ELSE ToStr(v)

RECURSIVE typeLabels(_, _)

\* types.map(label) as it is concatenated to a string: joined by commas
typeLabels(typeList, i) ==
  IF i > Len(typeList) THEN ""
  ELSE typeLabel(typeList[i]) \o (IF i < Len(typeList) THEN "," ELSE "")
       \o typeLabels(typeList, i + 1)

\* validateType without its test for an undefined instance
validateTypeOfUndefined(inst, sch, propertyPath) ==
  LET typeList == IF IsArray(Get(sch, "type")) THEN Get(sch, "type").e ELSE <<Get(sch, "type")>>
      report(some) ==
        CASE Threw(some) -> some
          [] ~Valid(some) ->
               RString((IF Len(typeList) = 1 THEN "is not a " ELSE "is none of ")
                       \o typeLabels(typeList, 1), inst)
          [] OTHER -> RNull(inst)
  IN report(someType(inst, typeList, propertyPath, 1))

validateType(inst, sch, propertyPath) ==
  IF inst = Undefined THEN RNull(inst)
  ELSE LET typeList == IF IsArray(Get(sch, "type")) THEN Get(sch, "type").e ELSE <<Get(sch, "type")>>
           report(some) ==
             CASE Threw(some) -> some
               [] ~Valid(some) ->
                    RString((IF Len(typeList) = 1 THEN "is not a " ELSE "is none of ")
                            \o typeLabels(typeList, 1), inst)
               [] OTHER -> RNull(inst)
       IN report(someType(inst, typeList, propertyPath, 1))

---------------------------------------------------------------------------
(* oneOf's test for a pair of branches with mutually exclusive dependencies *)

\* Object.keys(v)
OwnKeys(v) ==
  CASE IsObject(v) -> Keys(v)
    [] IsArray(v) -> SubSeq(IndexKeys, 1, Len(v.e))
    [] v.k = "string" -> SubSeq(IndexKeys, 1, Len(v.s))
    [] OTHER -> <<>>

RECURSIVE hoistNot(_, _, _)

\* Object.keys(schema.not).forEach(function(propName){
\*   schema[propName] = schema.not[propName]; }), from the i-th key on
hoistNot(s, names, i) ==
  IF i > Len(names) THEN s
  ELSE hoistNot(Put(s, names[i], Prop(Get(s, "not"), names[i])), names, i + 1)

RECURSIVE removeNot(_)
RECURSIVE removeNotSome(_, _, _)

\* Object.keys(schema).some(function(propName){
\*   return removeNot(schema[propName]); }), from the i-th key on
removeNotSome(s, names, i) ==
  IF i > Len(names) THEN [found |-> FALSE, schema |-> s, threw |-> FALSE]
  ELSE LET some(r) ==
             IF r.threw THEN r
             ELSE IF r.found THEN [found |-> TRUE, schema |-> SetProp(s, names[i], r.schema), threw |-> FALSE]
             ELSE removeNotSome(s, names, i + 1)
       IN some(removeNot(Prop(s, names[i])))

\* removeNot(schema) works in place: found is what it returns, schema is the
\* argument as the call leaves it, threw a TypeError of a null operand.
removeNot(s) ==
  IF TypeofObject(s)
  THEN IF s = Null \/ (HasOwn(s, "not") /\ Get(s, "not").k \in {"null", "undefined"})
       THEN [found |-> FALSE, schema |-> s, threw |-> TRUE]
       ELSE IF HasOwn(s, "not")
       THEN [found |-> TRUE,
             schema |-> Delete(hoistNot(s, OwnKeys(Get(s, "not")), 1), "not"),
             threw |-> FALSE]
       ELSE removeNotSome(s, OwnKeys(s), 1)
  ELSE [found |-> FALSE, schema |-> s, threw |-> FALSE]

\* the value itself handed on in place of a copy of it
cloneDeepByReference(v) == [copy |-> v, aliased |-> TRUE]

\* _.cloneDeep(value): a copy that shares no node with the value
cloneDeep(v) == [copy |-> v, aliased |-> FALSE]

\* _.isEqual(a, b)
isEqual(a, b) == a = b

\* areSubschemasMutuallyExclusive(subschemaName): "true", "false" or "throw"
areSubschemasMutuallyExclusive(dependency1, dependency2, subschemaName) ==
  IF ~Truthy(Prop(dependency2, subschemaName)) THEN "false"
  ELSE LET compare(subschema1, subschema2) ==
             IF subschema1.threw \/ subschema2.threw THEN "throw"
             ELSE IF ~subschema1.found /\ ~subschema2.found THEN "false"
             ELSE IF ~isEqual(subschema1.schema, subschema2.schema) THEN "false"
             ELSE "true"
       IN compare(removeNot(cloneDeep(Prop(dependency1, subschemaName)).copy),
                  removeNot(cloneDeep(Prop(dependency2, subschemaName)).copy))

\* What a call of areSubschemasMutuallyExclusive(subschemaName) leaves of
\* dependency1 and dependency2: removeNot writes to the object it is handed,
\* which is a node of the dependency only if the copy is no copy.
subschemasLeft(dependency1, dependency2, subschemaName) ==
  IF ~Truthy(Prop(dependency2, subschemaName)) THEN <<dependency1, dependency2>>
  ELSE LET left(dependency, subschema, ran) ==
             IF ran /\ subschema.aliased
             THEN SetProp(dependency, subschemaName, removeNot(subschema.copy).schema)
             ELSE dependency
           both(subschema1, subschema2) ==
             <<left(dependency1, subschema1, TRUE),
               left(dependency2, subschema2, ~removeNot(subschema1.copy).threw)>>
       IN both(cloneDeep(Prop(dependency1, subschemaName)), cloneDeep(Prop(dependency2, subschemaName)))

RECURSIVE everySubschema(_, _, _, _)

\* Object.keys(dependency1).every(areSubschemasMutuallyExclusive), from the
\* i-th key on
everySubschema(dependency1, dependency2, names, i) ==
  IF i > Len(names) THEN "true"
  ELSE LET every(t) == IF t = "true" THEN everySubschema(dependency1, dependency2, names, i + 1) ELSE t
       IN every(areSubschemasMutuallyExclusive(dependency1, dependency2, names[i]))

RECURSIVE everyLeft(_, _, _, _)

\* What Object.keys(dependency1).every(areSubschemasMutuallyExclusive), from
\* the i-th key on, leaves of dependency1 and dependency2.
everyLeft(dependency1, dependency2, names, i) ==
  IF i > Len(names) THEN <<dependency1, dependency2>>
  ELSE LET every(l, t) == IF t = "true" THEN everyLeft(l[1], l[2], names, i + 1) ELSE l
       IN every(subschemasLeft(dependency1, dependency2, names[i]),
                areSubschemasMutuallyExclusive(dependency1, dependency2, names[i]))

\* What hasMutuallyExclusiveDependencies(oneOf) leaves of the list oneOf.
oneOfLeft(oneOf) ==
  IF Len(oneOf) # 2 \/ ~Truthy(Prop(oneOf[1], "dependencies")) \/ ~Truthy(Prop(oneOf[2], "dependencies"))
  THEN oneOf
  ELSE LET put(l) == <<SetProp(oneOf[1], "dependencies", l[1]), SetProp(oneOf[2], "dependencies", l[2])>>
       IN put(everyLeft(Prop(oneOf[1], "dependencies"), Prop(oneOf[2], "dependencies"),
                        OwnKeys(Prop(oneOf[1], "dependencies")), 1))

\* What the validator of keyword, called on inst, leaves of the schema: only
\* validateOneOf hands the schema to code that writes (removeNot).
schemaLeft(keyword, inst, sch) ==
  IF keyword = "oneOf" /\ inst # Undefined /\ IsArray(Get(sch, "oneOf"))
  THEN Put(sch, "oneOf", Arr(oneOfLeft(Get(sch, "oneOf").e)))
  ELSE sch

\* hasMutuallyExclusiveDependencies(oneOf): "true", "false" or "throw"
hasMutuallyExclusiveDependencies(oneOf) ==
  IF Len(oneOf) # 2 \/ ~Truthy(Prop(oneOf[1], "dependencies")) \/ ~Truthy(Prop(oneOf[2], "dependencies"))
  THEN "false"
  ELSE everySubschema(Prop(oneOf[1], "dependencies"), Prop(oneOf[2], "dependencies"),
                      OwnKeys(Prop(oneOf[1], "dependencies")), 1)

\* hasNoDependencies(oneOf)
hasNoDependencies(oneOf) ==
  ~\E i \in 1..Len(oneOf) : TypeofObject(Prop(oneOf[i], "dependencies"))

---------------------------------------------------------------------------
(* The combinators *)

RECURSIVE validateEach(_, _, _, _)

\* schemas.map(validateSchema.bind(this, instance, options, ctx)), from the
\* i-th schema on: the results in order, each schema seeing the instance as
\* the schemas before it left it; a throw ends the list.
validateEach(inst, schemas, propertyPath, i) ==
  IF i > Len(schemas) THEN <<>>
  ELSE LET rest(r) ==
             IF Threw(r) THEN <<r>>
             ELSE <<r>> \o validateEach(IF inst = Undefined THEN inst ELSE r.instance,
                                        schemas, propertyPath, i + 1)
       IN rest(validateSchema(inst, schemas[i], propertyPath))

\* The throw among results, if any (it is the last one).
Thrown(results) == results # <<>> /\ Threw(results[Len(results)])

\* The instance after the calls that gave results.
After(inst, results) ==
  IF results = <<>> \/ inst = Undefined THEN inst ELSE results[Len(results)].instance

RECURSIVE concatErrors(_, _)

\* errors.push.apply(errors, results[index].errors) for every index from i on
concatErrors(results, i) ==
  IF i > Len(results) THEN <<>> ELSE results[i].errors \o concatErrors(results, i + 1)

validateAnyOf(inst, sch, propertyPath) ==
  IF inst = Undefined THEN RNull(inst)
  ELSE IF ~IsArray(Get(sch, "anyOf")) THEN RThrow("anyOf must be an array")
  ELSE LET decide(results) ==
             IF Thrown(results) THEN results[Len(results)]
             ELSE IF \E i \in 1..Len(results) : Valid(results[i])
             THEN RNull(After(inst, results))
             ELSE RResult(concatErrors(results, 1), After(inst, results))
       IN decide(validateEach(inst, Get(sch, "anyOf").e, propertyPath, 1))

\* (v.id && ('<' + v.id + '>')) || (v.title && JSON.stringify(v.title)) ||
\* (v['$ref'] && ('<' + v['$ref'] + '>')) || fallback
schemaLabel(v, fallback) ==
  IF Truthy(Prop(v, "id")) THEN "<" \o ToStr(Prop(v, "id")) \o ">"
  ELSE IF Truthy(Prop(v, "title")) THEN "\"" \o ToStr(Prop(v, "title")) \o "\""
  ELSE IF Truthy(Prop(v, "$ref")) THEN "<" \o ToStr(Prop(v, "$ref")) \o ">"
  ELSE fallback

RECURSIVE allOfFrom(_, _, _, _)

\* the allOf loop importing a failing member's errors without the wrapping error
allOfFromUnwrapped(acc, schemas, propertyPath, i) ==
  IF i > Len(schemas) THEN acc
  ELSE LET next(valid) ==
             IF Threw(valid) THEN valid
             ELSE allOfFrom(RResult(acc.errors \o valid.errors, valid.instance),
                            schemas, propertyPath, i + 1)
       IN next(validateSchema(acc.instance, schemas[i], propertyPath))

\* schema.allOf.forEach(function(v, i){ ... }) from the i-th member on, acc
\* being the result built so far
allOfFrom(acc, schemas, propertyPath, i) ==
  IF i > Len(schemas) THEN acc
  ELSE LET next(valid) ==
             IF Threw(valid) THEN valid
             ELSE allOfFrom(RResult(IF ~Valid(valid)
                                    THEN addError(acc.errors,
                                                  "does not match allOf schema "
                                                    \o schemaLabel(schemas[i], "<subschema>")
                                                    \o " with " \o ToString(Len(valid.errors)) \o " error[s]:",
                                                  propertyPath)
                                           \o valid.errors
                                    ELSE acc.errors,
                                    valid.instance),
                            schemas, propertyPath, i + 1)
       IN next(validateSchema(acc.instance, schemas[i], propertyPath))

validateAllOf(inst, sch, propertyPath) ==
  IF inst = Undefined THEN RNull(inst)
  ELSE IF ~IsArray(Get(sch, "allOf")) THEN RThrow("allOf must be an array")
  ELSE allOfFrom(RResult(<<>>, inst), Get(sch, "allOf").e, propertyPath, 1)

\* isDependencyError looking for the word of the keyword instead
isDependencyErrorByKeyword(error) == Contains(error.message, "dependencies")

\* isDependencyError(error)
isDependencyError(error) == Contains(error.message, "dependency")

RECURSIVE oneOfLabels(_, _)

\* schema.oneOf.map(label) as it is concatenated to a string
oneOfLabels(schemas, i) ==
  IF i > Len(schemas) THEN ""
  ELSE schemaLabel(schemas[i], "[subschema " \o ToString(i - 1) \o "]")
       \o (IF i < Len(schemas) THEN "," ELSE "")
       \o oneOfLabels(schemas, i + 1)

\* The number of valid results.
ValidCount(results) == Cardinality({i \in 1..Len(results) : Valid(results[i])})

\* validationResult taken from every failing result that has an error other
\* than a dependency error
RealFailuresOfOtherErrors(results) ==
  {i \in 1..Len(results) :
     ~Valid(results[i]) /\ \E j \in 1..Len(results[i].errors) : ~isDependencyError(results[i].errors[j])}

\* The mutually exclusive branch: validationResult is the last failing result
\* none of whose errors is a dependency error, if there is one.
RealFailures(results) ==
  {i \in 1..Len(results) :
     ~Valid(results[i]) /\ ~\E j \in 1..Len(results[i].errors) : isDependencyError(results[i].errors[j])}

Max(S) == CHOOSE x \in S : \A y \in S : y <= x

validateOneOf(inst, sch, propertyPath) ==
  IF inst = Undefined THEN RNull(inst)
  ELSE IF ~IsArray(Get(sch, "oneOf")) THEN RThrow("oneOf must be an array")
  ELSE LET oneOf == Get(sch, "oneOf").e
           decide(genericErrorMessage, exclusive, results, after) ==
             IF exclusive = "throw" THEN RThrow("TypeError")
             ELSE IF Thrown(results) THEN results[Len(results)]
             ELSE IF exclusive = "true"
             THEN IF ValidCount(results) # 1
                  THEN IF RealFailures(results) # {}
                       THEN RResult(results[Max(RealFailures(results))].errors, after)
                       ELSE RString(genericErrorMessage, after)
                  ELSE RNull(after)
             ELSE IF hasNoDependencies(oneOf)
             THEN LET count(errors, validCount) ==
                        IF (IF validCount = 0 THEN Len(errors) ELSE validCount) # 1
                        THEN IF validCount = 0
                             THEN RResult(errors, after)
                             ELSE RString(genericErrorMessage, after)
                        ELSE RNull(after)
                  IN count(concatErrors(results, 1), ValidCount(results))
             ELSE IF ValidCount(results) # 1
                  THEN RString(genericErrorMessage, after)
                  ELSE RNull(after)
           validated(results) ==
             decide("is not exactly one from " \o oneOfLabels(oneOf, 1),
                    hasMutuallyExclusiveDependencies(oneOf), results, After(inst, results))
       IN validated(validateEach(inst, oneOf, propertyPath, 1))

---------------------------------------------------------------------------
(* Numbers, regular expressions *)

Digits == "0123456789"

Letters == "abcdefghijklmnopqrstuvwxyzABCDEFGHIJKLMNOPQRSTUVWXYZ"

IsDigits(str) == str # "" /\ \A i \in 1..Len(str) : Contains(Digits, SubSeq(str, i, i))

DigitValue(ch) == (CHOOSE i \in 1..10 : SubSeq(Digits, i, i) = ch) - 1

RECURSIVE ParseDigits(_, _)

\* The value of the first n digits of a string of digits.
ParseDigits(str, n) ==
  IF n = 0 THEN 0 ELSE 10 * ParseDigits(str, n - 1) + DigitValue(SubSeq(str, n, n))

\* ToNumber(v), the operand conversion of <, <=, >=, >, == and /: nan marks
\* NaN.  Numbers are integers here.
ToNumber(v) ==
  CASE v.k = "number" -> [nan |-> FALSE, n |-> v.n]
    [] v.k = "string" /\ v.s = "" -> [nan |-> FALSE, n |-> 0]
    [] v.k = "string" /\ IsDigits(v.s) -> [nan |-> FALSE, n |-> ParseDigits(v.s, Len(v.s))]
    [] v.k = "boolean" -> [nan |-> FALSE, n |-> IF v.b THEN 1 ELSE 0]
    [] v.k = "null" -> [nan |-> FALSE, n |-> 0]
    [] v.k = "array" /\ v.e = <<>> -> [nan |-> FALSE, n |-> 0]
    [] OTHER -> [nan |-> TRUE, n |-> 0]

\* The character class a bracket expression names.
ClassOf(atom) ==
  CASE atom \in {"[0-9]", "[0-9]+"} -> Digits
    [] atom \in {"[a-zA-Z]", "[a-zA-Z]+"} -> Letters
    [] OTHER -> ""

\* new RegExp(pattern).test(str), for the patterns made of an optional ^, one
\* atom (a literal text, or a class [0-9] or [a-zA-Z], possibly repeated by +)
\* and an optional $.
regexTest(pattern, str) ==
  LET n == Len(pattern)
      atStart == n >= 1 /\ SubSeq(pattern, 1, 1) = "^"
      atEnd == n >= 1 /\ SubSeq(pattern, n, n) = "$"
      atom == SubSeq(pattern, IF atStart THEN 2 ELSE 1, IF atEnd THEN n - 1 ELSE n)
      class == ClassOf(atom)
      many == atom \in {"[0-9]+", "[a-zA-Z]+"}
      In(i) == Contains(class, SubSeq(str, i, i))
  IN IF class = ""
     THEN CASE atStart /\ atEnd -> str = atom
            [] atStart -> Len(str) >= Len(atom) /\ SubSeq(str, 1, Len(atom)) = atom
            [] atEnd -> Len(str) >= Len(atom) /\ SubSeq(str, Len(str) - Len(atom) + 1, Len(str)) = atom
            [] OTHER -> Contains(str, atom)
     ELSE CASE atStart /\ atEnd -> /\ Len(str) >= 1
                                   /\ (many \/ Len(str) = 1)
                                   /\ \A i \in 1..Len(str) : In(i)
            [] atStart -> Len(str) >= 1 /\ In(1)
            [] atEnd -> Len(str) >= 1 /\ In(Len(str))
            [] OTHER -> \E i \in 1..Len(str) : In(i)

---------------------------------------------------------------------------
(* Object and array keywords *)

RECURSIVE propertiesFrom(_, _, _, _, _)

\* for (var property in properties) { ... } from the i-th property on
propertiesFrom(acc, properties, names, propertyPath, i) ==
  IF i > Len(names) THEN acc
  ELSE LET property == names[i]
           prop == Prop(acc.instance, property)
           next(res) ==
             IF Threw(res) THEN res
             ELSE propertiesFrom(RResult(importErrors(acc.errors, res, propertyPath),
                                         WriteBack(acc.instance, property, res.instance)),
                                 properties, names, propertyPath, i + 1)
       IN next(validateSchema(prop, Prop(properties, property), makeChild(propertyPath, property)))

validateProperties(inst, sch, propertyPath) ==
  IF inst = Undefined \/ ~(IsObject(inst) \/ IsArray(inst)) THEN RNull(inst)
  ELSE LET properties == IF Truthy(Get(sch, "properties")) THEN Get(sch, "properties") ELSE EmptyObj
       IN propertiesFrom(RResult(<<>>, inst), properties, OwnKeys(properties), propertyPath, 1)

\* testAdditionalProperty.call(this, instance, schema, options, ctx, property,
\* result), acc being result
testAdditionalProperty(acc, sch, propertyPath, property) ==
  IF Truthy(Get(sch, "properties")) /\ Prop(Get(sch, "properties"), property) # Undefined
  THEN acc
  ELSE IF Get(sch, "additionalProperties") = Bool(FALSE)
  THEN RResult(addError(acc.errors, "does not exist in the schema", property), acc.instance)
  ELSE LET additionalProperties ==
             IF Truthy(Get(sch, "additionalProperties")) THEN Get(sch, "additionalProperties") ELSE EmptyObj
           import(res) ==
             IF Threw(res) THEN res
             ELSE RResult(importErrors(acc.errors, res, propertyPath),
                          WriteBack(acc.instance, property, res.instance))
       IN import(validateSchema(Prop(acc.instance, property), additionalProperties,
                                makeChild(propertyPath, property)))

RECURSIVE patternsFrom(_, _, _, _, _, _)

\* for (var pattern in patternProperties) { ... } for one property, from the
\* i-th pattern on; test tells whether no pattern has matched so far
patternsFrom(acc, test, patternProperties, propertyPath, property, i) ==
  LET next(patterns) ==
        IF i > Len(patterns) \/ Threw(acc) THEN [acc |-> acc, test |-> test]
        ELSE IF ~regexTest(patterns[i], property)
        THEN patternsFrom(acc, test, patternProperties, propertyPath, property, i + 1)
        ELSE LET import(res) ==
                   patternsFrom(IF Threw(res) THEN res
                                ELSE RResult(importErrors(acc.errors, res, propertyPath),
                                             WriteBack(acc.instance, property, res.instance)),
                                FALSE, patternProperties, propertyPath, property, i + 1)
             IN import(validateSchema(Prop(acc.instance, property),
                                      Prop(patternProperties, patterns[i]),
                                      makeChild(propertyPath, property)))
  IN next(OwnKeys(patternProperties))

RECURSIVE patternPropertiesFrom(_, _, _, _, _)

\* for (var property in instance) { ... } from the i-th property on
patternPropertiesFrom(acc, sch, names, propertyPath, i) ==
  IF i > Len(names) \/ Threw(acc) THEN acc
  ELSE LET patternProperties ==
             IF Truthy(Get(sch, "patternProperties")) THEN Get(sch, "patternProperties") ELSE EmptyObj
           next(matched) ==
             patternPropertiesFrom(IF ~Threw(matched.acc) /\ matched.test
                                   THEN testAdditionalProperty(matched.acc, sch, propertyPath, names[i])
                                   ELSE matched.acc,
                                   sch, names, propertyPath, i + 1)
       IN next(patternsFrom(acc, TRUE, patternProperties, propertyPath, names[i], 1))

validatePatternProperties(inst, sch, propertyPath) ==
  IF inst = Undefined THEN RNull(inst)
  ELSE IF ~types("object", inst) THEN RNull(inst)
  ELSE patternPropertiesFrom(RResult(<<>>, inst), sch, OwnKeys(inst), propertyPath, 1)

RECURSIVE additionalPropertiesFrom(_, _, _, _, _)

\* for (var property in instance) { testAdditionalProperty(...) } from the
\* i-th property on
additionalPropertiesFrom(acc, sch, names, propertyPath, i) ==
  IF i > Len(names) \/ Threw(acc) THEN acc
  ELSE additionalPropertiesFrom(testAdditionalProperty(acc, sch, propertyPath, names[i]),
                                sch, names, propertyPath, i + 1)

\* validateAdditionalProperties without its deference to patternProperties
validateAdditionalPropertiesAlways(inst, sch, propertyPath) ==
  IF inst = Undefined THEN RNull(inst)
  ELSE IF ~types("object", inst) THEN RNull(inst)
  ELSE additionalPropertiesFrom(RResult(<<>>, inst), sch, OwnKeys(inst), propertyPath, 1)

validateAdditionalProperties(inst, sch, propertyPath) ==
  IF inst = Undefined THEN RNull(inst)
  ELSE IF ~types("object", inst) THEN RNull(inst)
  ELSE IF Truthy(Get(sch, "patternProperties")) THEN RNull(inst)
  ELSE additionalPropertiesFrom(RResult(<<>>, inst), sch, OwnKeys(inst), propertyPath, 1)

validateMinProperties(inst, sch, propertyPath) ==
  IF ~Truthy(inst) \/ ~TypeofObject(inst) THEN RNull(inst)
  ELSE LET bound == ToNumber(Get(sch, "minProperties"))
       IN IF ~(~bound.nan /\ Len(OwnKeys(inst)) >= bound.n)
          THEN RString("does not meet minimum property length of " \o ToStr(Get(sch, "minProperties")), inst)
          ELSE RNull(inst)

validateMaxProperties(inst, sch, propertyPath) ==
  IF ~Truthy(inst) \/ ~TypeofObject(inst) THEN RNull(inst)
  ELSE LET bound == ToNumber(Get(sch, "maxProperties"))
       IN IF ~(~bound.nan /\ Len(OwnKeys(inst)) <= bound.n)
          THEN RString("does not meet maximum property length of " \o ToStr(Get(sch, "maxProperties")), inst)
          ELSE RNull(inst)

RECURSIVE itemsFrom(_, _, _, _)

\* the items loop going on to the next index after 'additionalItems not permitted'
itemsFromContinuing(acc, sch, propertyPath, i) ==
  IF i >= Len(acc.instance.e) THEN acc
  ELSE LET import(res) ==
             IF Threw(res) THEN res
             ELSE itemsFrom(RResult(importErrors(acc.errors, res, propertyPath),
                                    IF res.instance # At(acc.instance, i)
                                    THEN PutAt(acc.instance, i, res.instance)
                                    ELSE acc.instance),
                            sch, propertyPath, i + 1)
           every(items) ==
             IF items = Undefined THEN itemsFrom(acc, sch, propertyPath, i + 1)
             ELSE IF items = Bool(FALSE)
             THEN itemsFrom(RResult(addError(acc.errors, "additionalItems not permitted", propertyPath),
                                    acc.instance),
                            sch, propertyPath, i + 1)
             ELSE import(validateSchema(At(acc.instance, i), items, makeChild(propertyPath, IndexKeys[i + 1])))
       IN every(IF IsArray(Get(sch, "items"))
                THEN (IF Truthy(At(Get(sch, "items"), i)) THEN At(Get(sch, "items"), i)
                      ELSE Get(sch, "additionalItems"))
                ELSE Get(sch, "items"))

\* instance.every(function (value, i) { ... }) from index i on
itemsFrom(acc, sch, propertyPath, i) ==
  IF i >= Len(acc.instance.e) THEN acc
  ELSE LET import(res) ==
             IF Threw(res) THEN res
             ELSE itemsFrom(RResult(importErrors(acc.errors, res, propertyPath),
                                    IF res.instance # At(acc.instance, i)
                                    THEN PutAt(acc.instance, i, res.instance)
                                    ELSE acc.instance),
                            sch, propertyPath, i + 1)
           every(items) ==
             IF items = Undefined THEN itemsFrom(acc, sch, propertyPath, i + 1)
             ELSE IF items = Bool(FALSE)
             THEN RResult(addError(acc.errors, "additionalItems not permitted", propertyPath), acc.instance)
             ELSE import(validateSchema(At(acc.instance, i), items, makeChild(propertyPath, IndexKeys[i + 1])))
       IN every(IF IsArray(Get(sch, "items"))
                THEN (IF Truthy(At(Get(sch, "items"), i)) THEN At(Get(sch, "items"), i)
                      ELSE Get(sch, "additionalItems"))
                ELSE Get(sch, "items"))

validateItems(inst, sch, propertyPath) ==
  IF ~IsArray(inst) THEN RNull(inst)
  ELSE IF ~Truthy(Get(sch, "items")) THEN RResult(<<>>, inst)
  ELSE itemsFrom(RResult(<<>>, inst), sch, propertyPath, 0)

---------------------------------------------------------------------------
(* Number, string and size keywords *)

\* validateMinimum without regard for exclusiveMinimum
validateMinimumInclusive(inst, sch, propertyPath) ==
  IF inst.k # "number" THEN RNull(inst)
  ELSE LET minimum == ToNumber(Get(sch, "minimum"))
       IN IF ~(~minimum.nan /\ inst.n >= minimum.n)
          THEN RString("must have a minimum value of " \o ToStr(Get(sch, "minimum")), inst)
          ELSE RNull(inst)

validateMinimum(inst, sch, propertyPath) ==
  IF inst.k # "number" THEN RNull(inst)
  ELSE LET minimum == ToNumber(Get(sch, "minimum"))
           valid == IF Truthy(Get(sch, "exclusiveMinimum")) /\ Get(sch, "exclusiveMinimum") = Bool(TRUE)
                    THEN ~minimum.nan /\ inst.n > minimum.n
                    ELSE ~minimum.nan /\ inst.n >= minimum.n
       IN IF ~valid
          THEN RString("must have a minimum value of " \o ToStr(Get(sch, "minimum")), inst)
          ELSE RNull(inst)

validateMaximum(inst, sch, propertyPath) ==
  IF inst.k # "number" THEN RNull(inst)
  ELSE LET maximum == ToNumber(Get(sch, "maximum"))
           valid == IF Truthy(Get(sch, "exclusiveMaximum")) /\ Get(sch, "exclusiveMaximum") = Bool(TRUE)
                    THEN ~maximum.nan /\ inst.n < maximum.n
                    ELSE ~maximum.nan /\ inst.n <= maximum.n
       IN IF ~valid
          THEN RString("must have a maximum value of " \o ToStr(Get(sch, "maximum")), inst)
          ELSE RNull(inst)

\* value == 0
LooseEqualsZero(v) == v.k \notin {"undefined", "null"} /\ ~ToNumber(v).nan /\ ToNumber(v).n = 0

Abs(n) == IF n < 0 THEN -n ELSE n

\* instance / divisor % 1 is truthy: the quotient has a fractional part
HasFraction(n, divisor) ==
  ~ToNumber(divisor).nan /\ ToNumber(divisor).n # 0 /\ Abs(n) % Abs(ToNumber(divisor).n) # 0

validateDivisibleBy(inst, sch, propertyPath) ==
  IF inst.k # "number" THEN RNull(inst)
  ELSE IF LooseEqualsZero(Get(sch, "divisibleBy")) THEN RThrow("divisibleBy cannot be zero")
  ELSE IF HasFraction(inst.n, Get(sch, "divisibleBy"))
  THEN RString("is not " \o ToStr(Get(sch, "divisibleBy")), inst)
  ELSE RNull(inst)

validateMultipleOf(inst, sch, propertyPath) ==
  IF inst.k # "number" THEN RNull(inst)
  ELSE IF LooseEqualsZero(Get(sch, "multipleOf")) THEN RThrow("multipleOf cannot be zero")
  ELSE IF HasFraction(inst.n, Get(sch, "multipleOf"))
  THEN RString("is not " \o ToStr(Get(sch, "multipleOf")), inst)
  ELSE RNull(inst)

RECURSIVE requiredFrom(_, _, _, _, _)

\* the loop over schema.required taking only undefined, and not null, for a
\* missing value
requiredFromUndefinedOnly(errs, inst, names, propertyPath, i) ==
  IF i > Len(names) THEN errs
  ELSE requiredFrom(IF Prop(inst, ToStr(names[i])) = Undefined
                    THEN addError(errs, "is required",
                                  (IF propertyPath # "" THEN propertyPath \o "." ELSE "") \o ToStr(names[i]))
                    ELSE errs,
                    inst, names, propertyPath, i + 1)

\* schema.required.forEach(function(n){ ... }) from the i-th name on
requiredFrom(errs, inst, names, propertyPath, i) ==
  IF i > Len(names) THEN errs
  ELSE requiredFrom(IF Prop(inst, ToStr(names[i])).k \in {"undefined", "null"}
                    THEN addError(errs, "is required",
                                  (IF propertyPath # "" THEN propertyPath \o "." ELSE "") \o ToStr(names[i]))
                    ELSE errs,
                    inst, names, propertyPath, i + 1)

\* validateRequired taking only undefined, and not null, for a missing value
validateRequiredUndefinedOnly(inst, sch, propertyPath) ==
  IF Get(sch, "required") = Bool(TRUE) /\ inst = Undefined
  THEN RString("is required", inst)
  ELSE IF Truthy(inst) /\ TypeofObject(inst) /\ IsArray(Get(sch, "required"))
  THEN RResult(requiredFrom(<<>>, inst, Get(sch, "required").e, propertyPath, 1), inst)
  ELSE RNull(inst)

validateRequired(inst, sch, propertyPath) ==
  IF Get(sch, "required") = Bool(TRUE) /\ inst.k \in {"undefined", "null"}
  THEN RString("is required", inst)
  ELSE IF Truthy(inst) /\ TypeofObject(inst) /\ IsArray(Get(sch, "required"))
  THEN RResult(requiredFrom(<<>>, inst, Get(sch, "required").e, propertyPath, 1), inst)
  ELSE RNull(inst)

validatePattern(inst, sch, propertyPath) ==
  IF inst.k \in {"undefined", "null"} \/ (inst = Str("") /\ ~Truthy(Get(sch, "required")))
  THEN RNull(inst)
  ELSE IF ~regexTest(ToStr(Get(sch, "pattern")), ToStr(inst))
  THEN RString("does not match pattern " \o ToStr(Get(sch, "pattern")), inst)
  ELSE RNull(inst)

\* A regular expression object, as a handler of the format table.
RegExp(source) == [k |-> "regexp", source |-> source]

\* helpers.isFormat(input, format): true, or what a failed check hands back:
\* false, or the regular expression that did not match.
isFormat(input, format) ==
  LET handler == IF format \in DOMAIN FORMAT_REGEXPS THEN FORMAT_REGEXPS[format] ELSE Undefined
  IN IF handler.k = "regexp"
     THEN (IF regexTest(handler.source, input) THEN Bool(TRUE) ELSE handler)
     ELSE Bool(FALSE)

validateFormat(inst, sch, propertyPath) ==
  IF inst.k \in {"undefined", "null"} \/ (inst = Str("") /\ ~Truthy(Get(sch, "required")))
  THEN RNull(inst)
  ELSE LET report(is, message) ==
             IF is # Bool(TRUE)
             THEN IF is.k = "regexp"
                  THEN RString(message \o ", based on pattern: /" \o is.source \o "/", inst)
                  ELSE IF is.k = "string" THEN RString(is.s, inst)
                  ELSE RString(message, inst)
             ELSE RNull(inst)
       IN report(isFormat(ToStr(inst), ToStr(Get(sch, "format"))),
                 "does not conform to the '" \o ToStr(Get(sch, "format")) \o "' format")

\* validateMinLength applying to strings only
validateMinLengthOfStrings(inst, sch, propertyPath) ==
  IF inst.k # "string" THEN RNull(inst)
  ELSE LET bound == ToNumber(Get(sch, "minLength"))
       IN IF ~(~bound.nan /\ Len(ToStr(inst)) >= bound.n)
          THEN RString("does not meet minimum length of " \o ToStr(Get(sch, "minLength")), inst)
          ELSE RNull(inst)

validateMinLength(inst, sch, propertyPath) ==
  IF inst.k \in {"undefined", "null"} THEN RNull(inst)
  ELSE LET bound == ToNumber(Get(sch, "minLength"))
       IN IF ~(~bound.nan /\ Len(ToStr(inst)) >= bound.n)
          THEN RString("does not meet minimum length of " \o ToStr(Get(sch, "minLength")), inst)
          ELSE RNull(inst)

\* validateMaxLength applying to strings only
validateMaxLengthOfStrings(inst, sch, propertyPath) ==
  IF inst.k # "string" THEN RNull(inst)
  ELSE LET bound == ToNumber(Get(sch, "maxLength"))
       IN IF ~(~bound.nan /\ Len(ToStr(inst)) <= bound.n)
          THEN RString("does not meet maximum length of " \o ToStr(Get(sch, "maxLength")), inst)
          ELSE RNull(inst)

validateMaxLength(inst, sch, propertyPath) ==
  IF inst.k \in {"undefined", "null"} THEN RNull(inst)
  ELSE LET bound == ToNumber(Get(sch, "maxLength"))
       IN IF ~(~bound.nan /\ Len(ToStr(inst)) <= bound.n)
          THEN RString("does not meet maximum length of " \o ToStr(Get(sch, "maxLength")), inst)
          ELSE RNull(inst)

validateMinItems(inst, sch, propertyPath) ==
  IF ~IsArray(inst) THEN RNull(inst)
  ELSE LET bound == ToNumber(Get(sch, "minItems"))
       IN IF ~(~bound.nan /\ Len(inst.e) >= bound.n)
          THEN RString("must contain at least " \o ToStr(Get(sch, "minItems")), inst)
          ELSE RNull(inst)

validateMaxItems(inst, sch, propertyPath) ==
  IF ~IsArray(inst) THEN RNull(inst)
  ELSE LET bound == ToNumber(Get(sch, "maxItems"))
       IN IF ~(~bound.nan /\ Len(inst.e) <= bound.n)
          THEN RString("does not meet maximum length of " \o ToStr(Get(sch, "maxItems")), inst)
          ELSE RNull(inst)

\* testArrays comparing an element with the one next to it only
testArraysAdjacent(a, i) == ~(i + 1 <= Len(a) /\ deepCompareStrict(a[i], a[i + 1]))

\* testArrays(v, i, a) for the 1-based position i of a
testArrays(a, i) == ~\E j \in (i + 1)..Len(a) : deepCompareStrict(a[i], a[j])

validateUniqueItems(inst, sch, propertyPath) ==
  IF ~IsArray(inst) THEN RNull(inst)
  ELSE IF ~\A i \in 1..Len(inst.e) : testArrays(inst.e, i)
  THEN RString("contains duplicate item", inst)
  ELSE RNull(inst)

---------------------------------------------------------------------------
(* dependencies, enum, not *)

RECURSIVE dependencyNamesFrom(_, _, _, _, _, _)

\* the loop over the names of a dependency ending at the first name not found
dependencyNamesFromFirstOnly(errs, inst, dep, propertyPath, childPath, i) ==
  IF i > Len(dep) THEN errs
  ELSE IF Prop(inst, ToStr(dep[i])) = Undefined
  THEN addError(errs, "property " \o ToStr(dep[i]) \o " not found, required by " \o childPath,
                propertyPath)
  ELSE dependencyNamesFrom(errs, inst, dep, propertyPath, childPath, i + 1)

\* dep.forEach(function (prop) { ... }) from the i-th name on
dependencyNamesFrom(errs, inst, dep, propertyPath, childPath, i) ==
  IF i > Len(dep) THEN errs
  ELSE dependencyNamesFrom(IF Prop(inst, ToStr(dep[i])) = Undefined
                           THEN addError(errs, "property " \o ToStr(dep[i]) \o " not found, required by " \o childPath,
                                         propertyPath)
                           ELSE errs,
                           inst, dep, propertyPath, childPath, i + 1)

RECURSIVE dependenciesFrom(_, _, _, _, _)

\* the loop over schema.dependencies validating the value of the dependent
\* property, and not the instance that has it, against a schema dependency
dependenciesFromOnProperty(acc, dependencies, names, propertyPath, i) ==
  IF i > Len(names) THEN acc
  ELSE IF Prop(acc.instance, names[i]) = Undefined
  THEN dependenciesFrom(acc, dependencies, names, propertyPath, i + 1)
  ELSE LET property == names[i]
           childPath == makeChild(propertyPath, property)
           dep == IF Prop(dependencies, property).k = "string"
                  THEN Arr(<<Prop(dependencies, property)>>)
                  ELSE Prop(dependencies, property)
       IN IF IsArray(dep)
          THEN dependenciesFrom(RResult(dependencyNamesFrom(acc.errors, acc.instance, dep.e,
                                                            propertyPath, childPath, 1),
                                        acc.instance),
                                dependencies, names, propertyPath, i + 1)
          ELSE LET import(res) ==
                     IF Threw(res) THEN res
                     ELSE dependenciesFrom(RResult(IF Len(res.errors) # 0
                                                   THEN addError(acc.errors,
                                                                 "does not meet dependency required by "
                                                                   \o childPath,
                                                                 propertyPath) \o res.errors
                                                   ELSE acc.errors,
                                                   acc.instance),
                                           dependencies, names, propertyPath, i + 1)
               IN import(validateSchema(Prop(acc.instance, property), dep, childPath))

\* for (var property in schema.dependencies) { ... } from the i-th key on
dependenciesFrom(acc, dependencies, names, propertyPath, i) ==
  IF i > Len(names) THEN acc
  ELSE IF Prop(acc.instance, names[i]) = Undefined
  THEN dependenciesFrom(acc, dependencies, names, propertyPath, i + 1)
  ELSE LET property == names[i]
           childPath == makeChild(propertyPath, property)
           dep == IF Prop(dependencies, property).k = "string"
                  THEN Arr(<<Prop(dependencies, property)>>)
                  ELSE Prop(dependencies, property)
       IN IF IsArray(dep)
          THEN dependenciesFrom(RResult(dependencyNamesFrom(acc.errors, acc.instance, dep.e,
                                                            propertyPath, childPath, 1),
                                        acc.instance),
                                dependencies, names, propertyPath, i + 1)
          ELSE LET import(res) ==
                     IF Threw(res) THEN res
                     ELSE dependenciesFrom(RResult(IF Len(res.errors) # 0
                                                   THEN addError(acc.errors,
                                                                 "does not meet dependency required by "
                                                                   \o childPath,
                                                                 propertyPath) \o res.errors
                                                   ELSE acc.errors,
                                                   res.instance),
                                           dependencies, names, propertyPath, i + 1)
               IN import(validateSchema(acc.instance, dep, childPath))

validateDependencies(inst, sch, propertyPath) ==
  IF ~Truthy(inst) \/ ~TypeofObject(inst) THEN RNull(inst)
  ELSE dependenciesFrom(RResult(<<>>, inst), Get(sch, "dependencies"),
                        OwnKeys(Get(sch, "dependencies")), propertyPath, 1)

validateEnum(inst, sch, propertyPath) ==
  IF ~IsArray(Get(sch, "enum")) THEN RThrow("enum expects an array")
  ELSE IF inst.k \in {"undefined", "null"} \/ (inst = Str("") /\ ~Truthy(Get(sch, "required")))
  THEN RNull(inst)
  ELSE IF ~\E i \in 1..Len(Get(sch, "enum").e) : deepCompareStrict(inst, Get(sch, "enum").e[i])
  THEN RString("is not one of enum values: " \o ToStr(Get(sch, "enum")), inst)
  ELSE RNull(inst)

RECURSIVE canNotBePresent(_, _, _, _)

\* the loop over type.required addressing every error below the path, the
\* empty path included
canNotBePresentBelowPath(errs, names, propertyPath, i) ==
  IF i > Len(names) THEN errs
  ELSE canNotBePresent(addError(errs, "can not be present", propertyPath \o "." \o ToStr(names[i])),
                       names, propertyPath, i + 1)

\* type.required.forEach(function(requiredProp){ ... }) from the i-th on
canNotBePresent(errs, names, propertyPath, i) ==
  IF i > Len(names) THEN errs
  ELSE canNotBePresent(addError(errs, "can not be present",
                                IF propertyPath # "" THEN propertyPath \o "." \o ToStr(names[i])
                                ELSE ToStr(names[i])),
                       names, propertyPath, i + 1)

RECURSIVE notFrom(_, _, _, _)

\* notTypes.forEach(function (type) { ... }) from the i-th type on
notFrom(acc, notTypes, propertyPath, i) ==
  IF i > Len(notTypes) THEN acc
  ELSE LET type == notTypes[i]
           next(t) ==
             IF Threw(t) THEN t
             ELSE IF Valid(t)
             THEN IF Truthy(Prop(type, "required")) /\ IsArray(Prop(type, "required"))
                  THEN notFrom(RResult(canNotBePresent(acc.errors, Prop(type, "required").e, propertyPath, 1),
                                       t.instance),
                               notTypes, propertyPath, i + 1)
                  ELSE notFrom(RResult(addError(acc.errors,
                                                "is of prohibited type "
                                                  \o (IF Truthy(type) /\ Truthy(Prop(type, "id"))
                                                      THEN "<" \o ToStr(Prop(type, "id")) \o ">"
                                                      ELSE ToStr(type)),
                                                propertyPath),
                                       t.instance),
                               notTypes, propertyPath, i + 1)
             ELSE notFrom(RResult(acc.errors, t.instance), notTypes, propertyPath, i + 1)
       IN next(testType(acc.instance, type, propertyPath))

validateNot(inst, sch, propertyPath) ==
  IF inst = Undefined THEN RNull(inst)
  ELSE LET notTypes == IF Truthy(Get(sch, "not")) THEN Get(sch, "not") ELSE Get(sch, "disallow")
       IN IF ~Truthy(notTypes) THEN RNull(inst)
          ELSE notFrom(RResult(<<>>, inst), IF IsArray(notTypes) THEN notTypes.e ELSE <<notTypes>>,
                       propertyPath, 1)

---------------------------------------------------------------------------
(* The orchestrator *)

\* attribute.ignoreProperties
ignoreProperties ==
  {"id", "default", "description", "title", "exclusiveMinimum", "exclusiveMaximum",
   "additionalItems", "$schema", "$ref", "extends"}

\* attribute.validators: the keywords that have a validator.
Keywords ==
  {"type", "anyOf", "allOf", "oneOf", "properties", "patternProperties",
   "additionalProperties", "minProperties", "maxProperties", "items", "minimum",
   "maximum", "divisibleBy", "multipleOf", "required", "pattern", "format",
   "minLength", "maxLength", "minItems", "maxItems", "uniqueItems",
   "dependencies", "enum", "not", "disallow"}

\* validators[key].call(this, instance, schema, options, ctx)
validators(key, inst, sch, propertyPath) ==
  CASE key = "type" -> validateType(inst, sch, propertyPath)
    [] key = "anyOf" -> validateAnyOf(inst, sch, propertyPath)
    [] key = "allOf" -> validateAllOf(inst, sch, propertyPath)
    [] key = "oneOf" -> validateOneOf(inst, sch, propertyPath)
    [] key = "properties" -> validateProperties(inst, sch, propertyPath)
    [] key = "patternProperties" -> validatePatternProperties(inst, sch, propertyPath)
    [] key = "additionalProperties" -> validateAdditionalProperties(inst, sch, propertyPath)
    [] key = "minProperties" -> validateMinProperties(inst, sch, propertyPath)
    [] key = "maxProperties" -> validateMaxProperties(inst, sch, propertyPath)
    [] key = "items" -> validateItems(inst, sch, propertyPath)
    [] key = "minimum" -> validateMinimum(inst, sch, propertyPath)
    [] key = "maximum" -> validateMaximum(inst, sch, propertyPath)
    [] key = "divisibleBy" -> validateDivisibleBy(inst, sch, propertyPath)
    [] key = "multipleOf" -> validateMultipleOf(inst, sch, propertyPath)
    [] key = "required" -> validateRequired(inst, sch, propertyPath)
    [] key = "pattern" -> validatePattern(inst, sch, propertyPath)
    [] key = "format" -> validateFormat(inst, sch, propertyPath)
    [] key = "minLength" -> validateMinLength(inst, sch, propertyPath)
    [] key = "maxLength" -> validateMaxLength(inst, sch, propertyPath)
    [] key = "minItems" -> validateMinItems(inst, sch, propertyPath)
    [] key = "maxItems" -> validateMaxItems(inst, sch, propertyPath)
    [] key = "uniqueItems" -> validateUniqueItems(inst, sch, propertyPath)
    [] key = "dependencies" -> validateDependencies(inst, sch, propertyPath)
    [] key = "enum" -> validateEnum(inst, sch, propertyPath)
    [] OTHER -> validateNot(inst, sch, propertyPath)

RECURSIVE attributesFrom(_, _, _, _, _)

\* for (var key in schema) { ... } from the i-th key on: every keyword that
\* has a validator is run on the instance as the keywords before it left it,
\* and what it hands back is imported into the result.
attributesFrom(acc, sch, names, propertyPath, i) ==
  IF i > Len(names) THEN acc
  ELSE IF names[i] \in ignoreProperties \/ names[i] \notin Keywords
  THEN attributesFrom(acc, sch, names, propertyPath, i + 1)
  ELSE LET import(validatorErr) ==
             IF Threw(validatorErr) THEN validatorErr
             ELSE attributesFrom(RResult(importErrors(acc.errors, validatorErr, propertyPath),
                                         validatorErr.instance),
                                 sch, names, propertyPath, i + 1)
       IN import(validators(names[i], acc.instance, sch, propertyPath))

\* this.validateSchema(instance, schema, options, ctx): a required node whose
\* instance is absent fails with that one error and nothing else is checked;
\* an undefined instance takes the schema's default; then every keyword of
\* the schema is checked.
validateSchema(inst, sch, propertyPath) ==
  LET check(required) ==
        IF Get(sch, "required") = Bool(TRUE) /\ required.kind = "string"
        THEN RResult(importErrors(<<>>, required, propertyPath), inst)
        ELSE attributesFrom(RResult(<<>>, IF inst = Undefined /\ HasOwn(sch, "default")
                                          THEN Get(sch, "default") ELSE inst),
                            sch, Keys(sch), propertyPath, 1)
  IN check(validateRequired(inst, sch, propertyPath))

---------------------------------------------------------------------------
(* The instances and schemas the calls are made with *)

\* The longest oneOf, anyOf, allOf and items lists.
MaxMembers == 2

\* The longest array instance.
MaxItems == 3

\* The largest number among the instances and bounds.
MaxNum == 3

\* Every sequence over S of at most n members.
SeqsUpTo(S, n) == UNION {[1..m -> S] : m \in 0..n}

Scalars ==
  {Undefined, Null, Num(1), Num(MaxNum), Str(""), Str("a"), Str("b"), Str("abc")}

\* The object that has the properties of v whose value is not undefined.
Defined(v) == Obj([x \in {key \in DOMAIN v.f : v.f[key] # Undefined} |-> v.f[x]])

\* Objects over the properties p, q (and r inside q) of the oneOf branches.
Objects ==
  {Defined(Obj([p |-> pv, q |-> qv])) :
     pv \in {Undefined, Str("1"), Str("3"), Str("5")},
     qv \in {Undefined, EmptyObj, Obj([r |-> Str("x")])}}

Arrays == {Arr(e) : e \in SeqsUpTo({Num(1), Str("a"), Str("b")}, MaxItems)}

Instances == Scalars \cup Objects

\* Branch schemas that carry no dependencies.
AnySchema == EmptyObj

StringSchema == Obj([type |-> Str("string")])

NumberSchema == Obj([id |-> Str("n2"), type |-> Str("number"), minimum |-> Num(2)])

TextSchema == Obj([title |-> Str("text"), minLength |-> Num(2), pattern |-> Str("^a")])

\* The branches of the oneOf with contradictory dependencies: if p then q
\* has r, p one of '1', '2'; if p then q has no r, p one of '3', '4'.
Branch1 ==
  Obj([dependencies |-> Obj([p |-> Obj([properties |-> Obj([q |-> Obj([required |-> Arr(<<Str("r")>>)])])])]),
       properties |-> Obj([p |-> Obj([enum |-> Arr(<<Str("1"), Str("2")>>)])])])

Branch2 ==
  Obj([dependencies |->
         Obj([p |-> Obj([properties |-> Obj([q |-> Obj([not |-> Obj([required |-> Arr(<<Str("r")>>)])])])])]),
       properties |-> Obj([p |-> Obj([enum |-> Arr(<<Str("3"), Str("4")>>)])])])

\* A branch whose dependency does not contradict Branch1's.
Branch3 ==
  Obj([dependencies |-> Obj([p |-> Obj([properties |-> Obj([q |-> Obj([required |-> Arr(<<Str("s")>>)])])])]),
       properties |-> Obj([p |-> Obj([enum |-> Arr(<<Str("3"), Str("4")>>)])])])

\* A branch that declares an empty dependencies object.
Branch4 == Obj([dependencies |-> EmptyObj, properties |-> Obj([p |-> Obj([enum |-> Arr(<<Str("1"), Str("2")>>)])])])

\* A branch with Branch2's dependency and one on a key the others lack.
Branch5 ==
  Obj([dependencies |->
         Obj([p |-> Obj([properties |-> Obj([q |-> Obj([not |-> Obj([required |-> Arr(<<Str("r")>>)])])])]),
              q |-> Obj([not |-> Obj([required |-> Arr(<<Str("r")>>)])])]),
       properties |-> Obj([p |-> Obj([enum |-> Arr(<<Str("3"), Str("4")>>)])])])

\* The oneOf lists of two branches that declare dependencies, in every order.
DependencyPairs ==
  {Obj([oneOf |-> Arr(<<a, b>>)]) : a, b \in {Branch1, Branch2, Branch3, Branch4, Branch5}}

Members == {AnySchema, StringSchema, NumberSchema, TextSchema, Branch1, Branch2, Branch3}

\* A keyword with the values it is tried with, well-formed and malformed.
Lists(keyword) == {Obj([x \in {keyword} |-> Arr(e)]) : e \in SeqsUpTo(Members, MaxMembers)}

Malformed(keyword) == {Obj([x \in {keyword} |-> v]) : v \in {Num(5), Str("a"), StringSchema, Null}}

Numbers == {Num(n) : n \in 0..MaxNum} \cup {Num(-1)}

Paths == {"", "body"}

TypeSchemas ==
  {Obj([type |-> t]) :
     t \in {Str("string"), Str("number"), Str("null"), Str("any"), Str("object"), Str("array"),
            Arr(<<Str("string"), Str("null")>>), Arr(<<NumberSchema, Str("boolean")>>), NumberSchema}}

\* A property schema that supplies a default.
DefaultSchema == Obj([default |-> Str("1"), enum |-> Arr(<<Str("1"), Str("2")>>)])

PropertiesSchemas ==
  {Obj([properties |-> Obj([p |-> Obj([enum |-> Arr(<<Str("1"), Str("2")>>)]),
                            q |-> Obj([type |-> Str("object"), required |-> Arr(<<Str("r")>>)])])]),
   Obj([properties |-> Obj([p |-> DefaultSchema])]),
   Obj([properties |-> Obj([q |-> Obj([properties |-> Obj([r |-> DefaultSchema])])])]),
   Obj([properties |-> Obj([p |-> Obj([required |-> Bool(TRUE)])])])}

\* Objects over the keys x1 (matches ^x and 1$), x2 (matches ^x), y1
\* (matches 1$), z and q (match neither).
PatternObjects ==
  {Obj([x \in D |-> CASE x = "x1" -> Num(1) [] x = "x2" -> Str("a") [] x = "y1" -> Num(MaxNum)
                      [] x = "z" -> Str("a") [] OTHER -> EmptyObj]) :
     D \in SUBSET {"x1", "x2", "y1", "z", "q"}}

PatternTables ==
  {EmptyObj,
   Obj([x \in {"^x"} |-> Obj([type |-> Str("number")])]),
   Obj([x \in {"^x", "1$"} |-> IF x = "^x" THEN Obj([type |-> Str("number")]) ELSE Obj([minimum |-> Num(2)])])}

\* Schemas over properties, patternProperties and additionalProperties, each
\* present or not.
PatternSchemas ==
  {Defined(Obj([properties |-> pr, patternProperties |-> pp, additionalProperties |-> ap])) :
     pr \in {Undefined, Obj([z |-> EmptyObj])},
     pp \in PatternTables \cup {Undefined},
     ap \in {Undefined, Bool(FALSE), StringSchema}}

ItemsSchemas ==
  {Defined(Obj([items |-> it, additionalItems |-> ai])) :
     it \in {StringSchema} \cup {Arr(e) : e \in SeqsUpTo({StringSchema, NumberSchema}, MaxMembers)},
     ai \in {Undefined, Bool(FALSE), StringSchema}}

BoundSchemas(keyword, exclusive) ==
  {Defined(Obj([x \in {keyword, exclusive} |-> IF x = keyword THEN b ELSE e])) :
     b \in {Num(n) : n \in 0..MaxNum} \cup {Str("2")},
     e \in {Undefined, Bool(TRUE), Bool(FALSE)}}

RequiredSchemas ==
  {Obj([required |-> r]) :
     r \in {Bool(TRUE), Bool(FALSE), Arr(<<>>), Arr(<<Str("p")>>), Arr(<<Str("p"), Str("q")>>)}}

PatternKeywordSchemas ==
  {Obj([pattern |-> Str("^a")]), Obj([pattern |-> Str("[0-9]")]), Obj([pattern |-> Str("b")]),
   Obj([pattern |-> Str("^a"), required |-> Bool(TRUE)])}

FormatSchemas ==
  {Obj([format |-> Str("alpha")]), Obj([format |-> Str("integer-positive")]),
   Obj([format |-> Str("alpha"), required |-> Bool(TRUE)])}

DependenciesSchemas ==
  {Obj([dependencies |-> d]) :
     d \in {Obj([p |-> Str("q")]),
            Obj([p |-> Arr(<<Str("q"), Str("r")>>)]),
            Obj([p |-> Obj([required |-> Arr(<<Str("q")>>)]), q |-> Arr(<<Str("p")>>)]),
            Get(Branch1, "dependencies"),
            Get(Branch2, "dependencies")}}

EnumSchemas ==
  {Obj([enum |-> Arr(<<>>)]),
   Obj([enum |-> Arr(<<Str("a"), Num(1)>>)]),
   Obj([enum |-> Arr(<<EmptyObj, Null>>)]),
   Obj([enum |-> Arr(<<Str("a"), Str("")>>), required |-> Bool(TRUE)])}

NotSchemas ==
  {Obj([not |-> Obj([required |-> Arr(<<Str("p")>>)])]),
   Obj([not |-> Obj([required |-> Arr(<<Str("p"), Str("q")>>)])]),
   Obj([not |-> StringSchema]),
   Obj([not |-> NumberSchema]),
   Obj([not |-> Arr(<<Str("string"), Str("object")>>)]),
   Obj([disallow |-> Str("string")])}

\* Nodes that are required and carry other keywords with it.
RequiredNodes ==
  {Obj([required |-> Bool(TRUE)]),
   Obj([required |-> Bool(TRUE), type |-> Str("string")]),
   Obj([required |-> Bool(TRUE), type |-> Str("null")]),
   Obj([required |-> Bool(TRUE), enum |-> Arr(<<Str("a")>>), default |-> Str("a")]),
   Obj([required |-> Bool(TRUE), pattern |-> Str("^a"), minLength |-> Num(2)]),
   Obj([required |-> Bool(TRUE), not |-> Obj([type |-> Str("null")])]),
   Obj([required |-> Bool(TRUE), type |-> Str("string"), not |-> Obj([type |-> Str("null")]),
        minLength |-> Num(2)]),
   Obj([type |-> Str("string"), not |-> Obj([type |-> Str("null")])]),
   Obj([enum |-> Arr(<<Str("a")>>), default |-> Str("a")])}

\* The schemas validate is called with.
WholeSchemas ==
  {Obj([oneOf |-> Arr(<<Branch1, Branch2>>)]), Obj([oneOf |-> Arr(<<Branch2, Branch1>>)])}
    \cup RequiredNodes
    \cup PatternSchemas


---------------------------------------------------------------------------
(* The state machine: a caller makes one call at a time to a keyword       *)
(* validator or to the orchestrator and takes what the call hands back.    *)

\* helpers.FORMAT_REGEXPS as the module is loaded
BuiltinFormats == [x \in {"alpha"} |-> RegExp("^[a-zA-Z]+$")]

Init ==
  /\ pc = "idle"
  /\ op = "none"
  /\ instance = Undefined
  /\ schema = EmptyObj
  /\ original = EmptyObj
  /\ path = ""
  /\ ret = RNull(Undefined)
  /\ FORMAT_REGEXPS = BuiltinFormats

\* The call of the validator of keyword on i and s at path p.
Call(keyword, i, s, p) ==
  /\ pc' = "returned"
  /\ op' = keyword
  /\ instance' = i
  /\ schema' = schemaLeft(keyword, i, s)
  /\ original' = s
  /\ path' = p
  /\ ret' = validators(keyword, i, s, p)
  /\ UNCHANGED FORMAT_REGEXPS

validators_type ==
  /\ pc = "idle"
  /\ \E i \in Scalars \cup {EmptyObj, Arr(<<>>)}, s \in TypeSchemas : Call("type", i, s, "")

validators_anyOf ==
  /\ pc = "idle"
  /\ \E i \in Instances, s \in Lists("anyOf") \cup Malformed("anyOf") : Call("anyOf", i, s, "")

validators_allOf ==
  /\ pc = "idle"
  /\ \E i \in Instances, s \in Lists("allOf") \cup Malformed("allOf") : Call("allOf", i, s, "")

validators_oneOf ==
  /\ pc = "idle"
  /\ \E i \in Instances, s \in Lists("oneOf") \cup DependencyPairs \cup Malformed("oneOf") :
       Call("oneOf", i, s, "")

validators_properties ==
  /\ pc = "idle"
  /\ \E i \in Instances, s \in PropertiesSchemas : Call("properties", i, s, "")

validators_patternProperties ==
  /\ pc = "idle"
  /\ \E i \in Scalars \cup PatternObjects, s \in PatternSchemas : Call("patternProperties", i, s, "")

validators_additionalProperties ==
  /\ pc = "idle"
  /\ \E i \in Scalars \cup PatternObjects, s \in PatternSchemas : Call("additionalProperties", i, s, "")

validators_minProperties ==
  /\ pc = "idle"
  /\ \E i \in Instances \cup Arrays, n \in 0..MaxNum : Call("minProperties", i, Obj([minProperties |-> Num(n)]), "")

validators_maxProperties ==
  /\ pc = "idle"
  /\ \E i \in Instances \cup Arrays, n \in 0..MaxNum : Call("maxProperties", i, Obj([maxProperties |-> Num(n)]), "")

validators_items ==
  /\ pc = "idle"
  /\ \E i \in Scalars \cup Arrays, s \in ItemsSchemas : Call("items", i, s, "")

validators_minimum ==
  /\ pc = "idle"
  /\ \E i \in Scalars \cup Numbers, s \in BoundSchemas("minimum", "exclusiveMinimum") : Call("minimum", i, s, "")

validators_maximum ==
  /\ pc = "idle"
  /\ \E i \in Scalars \cup Numbers, s \in BoundSchemas("maximum", "exclusiveMaximum") : Call("maximum", i, s, "")

validators_divisibleBy ==
  /\ pc = "idle"
  /\ \E i \in Scalars \cup Numbers \cup {EmptyObj}, n \in 0..MaxNum :
       Call("divisibleBy", i, Obj([divisibleBy |-> Num(n)]), "")

validators_multipleOf ==
  /\ pc = "idle"
  /\ \E i \in Scalars \cup Numbers \cup {EmptyObj}, n \in 0..MaxNum :
       Call("multipleOf", i, Obj([multipleOf |-> Num(n)]), "")

validators_required ==
  /\ pc = "idle"
  /\ \E i \in Instances \cup {Obj([p |-> Null, q |-> EmptyObj])}, s \in RequiredSchemas, p \in Paths :
       Call("required", i, s, p)

validators_pattern ==
  /\ pc = "idle"
  /\ \E i \in Scalars \cup Numbers, s \in PatternKeywordSchemas : Call("pattern", i, s, "")

validators_format ==
  /\ pc = "idle"
  /\ \E i \in Scalars \cup Numbers, s \in FormatSchemas : Call("format", i, s, "")

validators_minLength ==
  /\ pc = "idle"
  /\ \E i \in Scalars \cup Numbers, n \in 0..MaxNum : Call("minLength", i, Obj([minLength |-> Num(n)]), "")

validators_maxLength ==
  /\ pc = "idle"
  /\ \E i \in Scalars \cup Numbers, n \in 0..MaxNum : Call("maxLength", i, Obj([maxLength |-> Num(n)]), "")

validators_minItems ==
  /\ pc = "idle"
  /\ \E i \in Scalars \cup Arrays, n \in 0..MaxNum : Call("minItems", i, Obj([minItems |-> Num(n)]), "")

validators_maxItems ==
  /\ pc = "idle"
  /\ \E i \in Scalars \cup Arrays, n \in 0..MaxNum : Call("maxItems", i, Obj([maxItems |-> Num(n)]), "")

validators_uniqueItems ==
  /\ pc = "idle"
  /\ \E i \in Scalars \cup Arrays \cup {Arr(<<EmptyObj, Obj([r |-> Str("x")]), EmptyObj>>)} :
       Call("uniqueItems", i, Obj([uniqueItems |-> Bool(TRUE)]), "")

validators_dependencies ==
  /\ pc = "idle"
  /\ \E i \in Instances, s \in DependenciesSchemas, p \in Paths : Call("dependencies", i, s, p)

validators_enum ==
  /\ pc = "idle"
  /\ \E i \in Instances, s \in EnumSchemas \cup Malformed("enum") : Call("enum", i, s, "")

validators_not ==
  /\ pc = "idle"
  /\ \E i \in Instances, s \in NotSchemas, p \in Paths : Call("not", i, s, p)

\* validate(instance, schema): the orchestrator on a whole schema, from the
\* root path
validate ==
  /\ pc = "idle"
  /\ \E i \in Instances \cup PatternObjects, s \in WholeSchemas :
       /\ pc' = "returned"
       /\ op' = "validate"
       /\ instance' = i
       /\ schema' = (IF HasOwn(s, "oneOf") THEN schemaLeft("oneOf", i, s) ELSE s)
       /\ original' = s
       /\ path' = ""
       /\ ret' = validateSchema(i, s, "")
       /\ UNCHANGED FORMAT_REGEXPS

\* The names formats are registered under and the handlers registered.
FormatNames == {"alpha", "integer-positive"}

Handlers == {RegExp("^[0-9]+$"), RegExp("^[a-zA-Z0-9]+$")}

\* addFormat keeping the handler a name already has
addFormatOnce(name, handler) ==
  [x \in DOMAIN FORMAT_REGEXPS \cup {name} |->
     IF x \in DOMAIN FORMAT_REGEXPS THEN FORMAT_REGEXPS[x] ELSE handler]

\* helpers.FORMAT_REGEXPS[name] = handler: the table after the assignment
addFormat(name, handler) ==
  [x \in DOMAIN FORMAT_REGEXPS \cup {name} |-> IF x = name THEN handler ELSE FORMAT_REGEXPS[x]]

\* validators.addFormat(name, handler): name and handler are the first and
\* second argument, where the keyword validators have instance and schema.
validators_addFormat ==
  /\ pc = "idle"
  /\ \E name \in FormatNames, handler \in Handlers :
       /\ pc' = "returned"
       /\ op' = "addFormat"
       /\ instance' = Str(name)
       /\ schema' = handler
       /\ original' = handler
       /\ path' = ""
       /\ ret' = RNull(Str(name))
       /\ FORMAT_REGEXPS' = addFormat(name, handler)

\* The caller takes the result.
Return ==
  /\ pc = "returned"
  /\ pc' = "idle"
  /\ op' = "none"
  /\ instance' = Undefined
  /\ schema' = EmptyObj
  /\ original' = EmptyObj
  /\ path' = ""
  /\ ret' = RNull(Undefined)
  /\ UNCHANGED FORMAT_REGEXPS

Next ==
  \/ validators_type
  \/ validators_anyOf
  \/ validators_allOf
  \/ validators_oneOf
  \/ validators_properties
  \/ validators_patternProperties
  \/ validators_additionalProperties
  \/ validators_minProperties
  \/ validators_maxProperties
  \/ validators_items
  \/ validators_minimum
  \/ validators_maximum
  \/ validators_divisibleBy
  \/ validators_multipleOf
  \/ validators_required
  \/ validators_pattern
  \/ validators_format
  \/ validators_minLength
  \/ validators_maxLength
  \/ validators_minItems
  \/ validators_maxItems
  \/ validators_uniqueItems
  \/ validators_dependencies
  \/ validators_enum
  \/ validators_not
  \/ validate
  \/ Return

Spec == Init /\ [][Next]_vars

\* The format table is read by validateFormat alone and written by addFormat
\* alone: Spec has the table as the module is loaded, FormatSpec has the
\* calls that register formats and the format validations that follow them.
FormatNext ==
  \/ validators_addFormat
  \/ validators_format
  \/ Return

FormatSpec == Init /\ [][FormatNext]_vars

---------------------------------------------------------------------------
(* The properties checked of the validators *)

\* The call of the validator of keyword has returned.
Returned(keyword) == pc = "returned" /\ op = keyword

\* The errors the returned call contributes to the result it is imported in.
Contributed == importErrors(<<>>, ret, path)

\* The list of member schemas of the combinator keyword of the call.
MemberList == Get(schema, op).e

\* What validating the instance of the call against one schema gives.
Against(member) == validateSchema(instance, member, path)

\* The members of the combinator that validate the instance.
ValidMembers == {i \in 1..Len(MemberList) : Valid(Against(MemberList[i]))}

RECURSIVE MemberErrors(_)

\* The errors of the members from the i-th on, in member order.
MemberErrors(i) ==
  IF i > Len(MemberList) THEN <<>>
  ELSE Against(MemberList[i]).errors \o MemberErrors(i + 1)

\* The combinator was called on a defined instance with a list of members
\* and handed back a result.
CombinatorReturned(keyword) ==
  /\ Returned(keyword)
  /\ instance # Undefined
  /\ IsArray(Get(schema, keyword))
  /\ ~Threw(ret)

\* C1: on an instance other than undefined and a oneOf list of any length,
\* validateOneOf reports no error if and only if exactly one member validates
\* the instance.
OneOfExactlyOne ==
  CombinatorReturned("oneOf") => ((Contributed = <<>>) <=> (Cardinality(ValidMembers) = 1))

\* C2: on an instance other than undefined and an anyOf list of any length,
\* validateAnyOf reports no error if and only if at least one member validates
\* the instance, and when none does the errors reported are the members' own
\* errors, concatenated in member order, with nothing added.
AnyOfAtLeastOne ==
  CombinatorReturned("anyOf") =>
    /\ (Contributed = <<>>) <=> (ValidMembers # {})
    /\ ValidMembers = {} => Contributed = MemberErrors(1)

\* The wrapping error of a failing allOf member.
AllOfWrapper(member) ==
  Error(path, "does not match allOf schema " \o schemaLabel(member, "<subschema>") \o " with "
              \o ToString(Len(Against(member).errors)) \o " error[s]:")

RECURSIVE AllOfExpected(_)

\* For every failing member from the i-th on, in schema order: its wrapping
\* error, then its own errors.
AllOfExpected(i) ==
  IF i > Len(MemberList) THEN <<>>
  ELSE (IF Valid(Against(MemberList[i])) THEN <<>>
        ELSE <<AllOfWrapper(MemberList[i])>> \o Against(MemberList[i]).errors)
       \o AllOfExpected(i + 1)

\* C3: on an instance other than undefined, validateAllOf reports no error if
\* and only if every member validates, and every failing member contributes
\* one wrapping error that carries the member's error count, followed by that
\* member's errors, the members in schema order.
AllOfWrapsFailures ==
  CombinatorReturned("allOf") =>
    /\ (Contributed = <<>>) <=> (ValidMembers = 1..Len(MemberList))
    /\ Contributed = AllOfExpected(1)

\* C3's case: a two-member allOf whose second member alone fails, on one
\* sub-constraint, gave one wrapping error carrying one nested error.
AllOfSecondMemberFails ==
  /\ CombinatorReturned("allOf")
  /\ Len(MemberList) = 2
  /\ Valid(Against(MemberList[1]))
  /\ Len(Against(MemberList[2]).errors) = 1
  /\ Len(Contributed) = 2
  /\ Contributed[1] = AllOfWrapper(MemberList[2])
  /\ Contributed[2] = Against(MemberList[2]).errors[1]

\* The oneOf of the two branches with contradictory dependencies, in either
\* order, was validated.
ExclusiveBranches ==
  /\ Returned("validate")
  /\ schema \in {Obj([oneOf |-> Arr(<<Branch1, Branch2>>)]), Obj([oneOf |-> Arr(<<Branch2, Branch1>>)])}

\* The enum mismatch of property p against a branch.
EnumMismatch(branch) ==
  Error("p", "is not one of enum values: " \o ToStr(Get(Get(Get(branch, "properties"), "p"), "enum")))

\* The instance fails the branch on the enum of p and on nothing else.
FailsOnEnumOnly(branch) == Against(branch).errors = <<EnumMismatch(branch)>>

\* The instance fails the branch through its dependency and not on the enum.
FailsThroughDependencyOnly(branch) ==
  LET errors == Against(branch).errors
  IN /\ errors # <<>>
     /\ errors[1] = Error("", "does not meet dependency required by p")
     /\ \A j \in 1..Len(errors) : errors[j] # EnumMismatch(branch)

\* C4: for the oneOf of the two branches with contradictory dependencies, in
\* either order, an instance that satisfies one branch only is valid, and an
\* instance that fails one branch only through its dependency and the other
\* on the enum gets exactly one error, at property p: the other branch's enum
\* mismatch (no dependency error, no 'is not exactly one from').
OneOfExclusiveBranches ==
  ExclusiveBranches =>
    \A pair \in {<<Branch1, Branch2>>, <<Branch2, Branch1>>} :
      /\ (Valid(Against(pair[1])) /\ ~Valid(Against(pair[2]))) => Valid(ret)
      /\ (FailsThroughDependencyOnly(pair[1]) /\ FailsOnEnumOnly(pair[2])) =>
           (ret.kind = "result" /\ ret.errors = <<EnumMismatch(pair[2])>>)

\* C4's case: the second branch listed fails through its dependency only and
\* the first on the enum, and the one error is the first branch's mismatch.
OneOfDependencyThenEnum ==
  /\ ExclusiveBranches
  /\ FailsThroughDependencyOnly(Get(schema, "oneOf").e[2])
  /\ FailsOnEnumOnly(Get(schema, "oneOf").e[1])
  /\ ret.errors = <<EnumMismatch(Get(schema, "oneOf").e[1])>>

\* The keyword of the call has a value the validator can work with.
WellFormed ==
  CASE op \in {"enum", "anyOf", "allOf", "oneOf"} -> IsArray(Get(schema, op))
    [] op \in {"divisibleBy", "multipleOf"} -> Get(schema, op) # Num(0)
    [] OTHER -> TRUE

\* C5: every keyword validator other than required, called with a well-formed
\* schema and the instance undefined, contributes no error.
AbsenceNeutral ==
  (pc = "returned" /\ op \in Keywords \ {"required"} /\ instance = Undefined /\ WellFormed) =>
    (~Threw(ret) /\ Contributed = <<>>)

\* C5's case: type was checked of an undefined instance and gave nothing.
AbsentTypeChecked ==
  Returned("type") /\ instance = Undefined /\ ~Threw(ret) /\ Contributed = <<>>

\* C6: a validator whose keyword is malformed (enum, anyOf, allOf, oneOf that
\* is no list; divisibleBy, multipleOf of zero) raises a schema error whatever
\* the instance is, undefined and kinds the keyword does not apply to
\* included, and hands back no result.
MalformedKeywordThrows ==
  (pc = "returned" /\ op \in Keywords /\ ~WellFormed) => Threw(ret)

BoundaryChecks ==
  /\ (Returned("minimum") /\ instance.k # "number") => Contributed = <<>>
  /\ (Returned("maximum") /\ instance.k # "number") => Contributed = <<>>
  /\ (Returned("minimum") /\ instance.k = "number" /\ Get(schema, "minimum").k = "number") =>
       ((Contributed # <<>>) <=>
          (IF Get(schema, "exclusiveMinimum") = Bool(TRUE)
           THEN instance.n <= Get(schema, "minimum").n
           ELSE instance.n < Get(schema, "minimum").n))
  /\ (Returned("maximum") /\ instance.k = "number" /\ Get(schema, "maximum").k = "number") =>
       ((Contributed # <<>>) <=>
          (IF Get(schema, "exclusiveMaximum") = Bool(TRUE)
           THEN instance.n >= Get(schema, "maximum").n
           ELSE instance.n > Get(schema, "maximum").n))

\* C8's case: the boundary value itself, rejected under exclusiveMinimum.
ExclusiveBoundaryRejected ==
  /\ Returned("minimum")
  /\ Get(schema, "exclusiveMinimum") = Bool(TRUE)
  /\ instance = Get(schema, "minimum")
  /\ instance.k = "number"
  /\ Contributed = <<Error(path, "must have a minimum value of " \o ToStr(instance))>>

\* An object was validated against a schema that has patternProperties and
\* additionalProperties: false.
PatternCase ==
  /\ Returned("validate")
  /\ IsObject(instance)
  /\ HasOwn(schema, "patternProperties")
  /\ Get(schema, "additionalProperties") = Bool(FALSE)
  /\ ~Threw(ret)

\* The number of 'does not exist in the schema' errors the key received.
NotInSchema(key) ==
  Cardinality({j \in 1..Len(ret.errors) : ret.errors[j] = Error(key, "does not exist in the schema")})

\* The key matches at least one pattern of patternProperties.
MatchesPattern(key) ==
  \E pattern \in DOMAIN Get(schema, "patternProperties").f : regexTest(pattern, key)

\* The key is declared in schema.properties.
Declared(key) == HasOwn(schema, "properties") /\ HasOwn(Get(schema, "properties"), key)

\* C9: with patternProperties and additionalProperties: false, a key of the
\* object that matches a pattern or is declared in properties receives no
\* 'does not exist in the schema' error and every other key exactly one, in
\* the merged result.
UnmatchedKeysReportedOnce ==
  PatternCase =>
    \A key \in DOMAIN instance.f :
      NotInSchema(key) = IF MatchesPattern(key) \/ Declared(key) THEN 0 ELSE 1

\* C9's case: keys of each sort in one object.
KeysOfEachSort ==
  /\ PatternCase
  /\ \E key \in DOMAIN instance.f : MatchesPattern(key) /\ NotInSchema(key) = 0
  /\ \E key \in DOMAIN instance.f : Declared(key) /\ ~MatchesPattern(key) /\ NotInSchema(key) = 0
  /\ \E key \in DOMAIN instance.f : ~MatchesPattern(key) /\ ~Declared(key) /\ NotInSchema(key) = 1

\* An array longer than the items list was validated with additionalItems:
\* false.
ItemsCase ==
  /\ Returned("items")
  /\ IsArray(instance)
  /\ IsArray(Get(schema, "items"))
  /\ Get(schema, "additionalItems") = Bool(FALSE)
  /\ Len(Get(schema, "items").e) < Len(instance.e)

RECURSIVE ItemErrors(_)

\* The errors of the elements from index i up to the end of the items list,
\* each validated against the schema at its own index, at the path extended
\* by the index.
ItemErrors(i) ==
  IF i >= Len(Get(schema, "items").e) THEN <<>>
  ELSE importErrors(<<>>,
                    validateSchema(At(instance, i), Get(schema, "items").e[i + 1],
                                   makeChild(path, IndexKeys[i + 1])),
                    path)
       \o ItemErrors(i + 1)

\* C10: an array of n elements against an items list of k < n schemas with
\* additionalItems: false gives the errors of the elements 0..k-1, in index
\* order, then one 'additionalItems not permitted', and nothing of the
\* elements from index k on.
AdditionalItemsStop ==
  ItemsCase =>
    /\ ret.kind = "result"
    /\ ret.errors = ItemErrors(0) \o <<Error(path, "additionalItems not permitted")>>

\* C10's case: an element within the list fails and two or more elements lie
\* beyond the list.
ItemsBeyondTheList ==
  /\ ItemsCase
  /\ Len(instance.e) >= Len(Get(schema, "items").e) + 2
  /\ ItemErrors(0) # <<>>
  /\ ret.errors = ItemErrors(0) \o <<Error(path, "additionalItems not permitted")>>

\* The one prohibited schema or type of a returned call of not/disallow on a
\* defined instance.
Prohibited == IF Truthy(Get(schema, "not")) THEN Get(schema, "not") ELSE Get(schema, "disallow")

NotCase ==
  /\ Returned("not")
  /\ instance # Undefined
  /\ Truthy(Prohibited)
  /\ ~IsArray(Prohibited)
  /\ ~Threw(ret)

\* The instance matches what is prohibited.
MatchesProhibited == Valid(testType(instance, Prohibited, path))

\* The prohibited schema declares a required array.
ProhibitsNames == IsArray(Prop(Prohibited, "required"))

\* One 'can not be present' per prohibited name, at the path extended by it.
CanNotBePresentErrors ==
  [i \in 1..Len(Prop(Prohibited, "required").e) |->
     Error((IF path = "" THEN "" ELSE path \o ".") \o ToStr(Prop(Prohibited, "required").e[i]),
           "can not be present")]

\* C11: validateNot reports nothing when the instance does not match the
\* prohibited schema; when it matches and the schema declares a required
\* array, one 'can not be present' per name of the array, at '<path>.<name>'
\* ('<name>' at the empty path) and no 'is of prohibited type'; when it
\* matches and there is no required array, one 'is of prohibited type' error.
NotReportsProhibited ==
  NotCase =>
    /\ ~MatchesProhibited => Contributed = <<>>
    /\ (MatchesProhibited /\ ProhibitsNames) => Contributed = CanNotBePresentErrors
    /\ (MatchesProhibited /\ ~ProhibitsNames) =>
         /\ Len(Contributed) = 1
         /\ Contributed[1].property = path
         /\ SubSeq(Contributed[1].message, 1, 22) = "is of prohibited type "

\* C11's case: two prohibited names, reported at the empty path and the
\* instance matching.
TwoNamesCanNotBePresent ==
  /\ NotCase
  /\ MatchesProhibited
  /\ path = ""
  /\ Contributed = <<Error("p", "can not be present"), Error("q", "can not be present")>>

\* validateDependencies was called on an object and handed back a result.
DependenciesCase == Returned("dependencies") /\ IsObject(instance) /\ ~Threw(ret)

\* The names an entry of dependencies lists, if it is a name or a list of
\* names, and none if it is a schema.
ListedNames(key) ==
  LET dep == Get(Get(schema, "dependencies"), key)
  IN CASE dep.k = "string" -> <<dep>>
       [] IsArray(dep) -> dep.e
       [] OTHER -> <<>>

\* The error of the name not found that the entry of key requires.
NotFound(key, name) ==
  Error(path, "property " \o ToStr(name) \o " not found, required by " \o makeChild(path, key))

\* How many times an error is among those contributed.
Count(error) == Cardinality({j \in 1..Len(Contributed) : Contributed[j] = error})

\* C12: on an object, a dependencies entry key -> name or list of names
\* contributes nothing when key is absent from the instance and, when key is
\* present, one 'property X not found, required by <path>' for every listed
\* name X absent from the instance and nothing for the names present.
NamedDependencies ==
  DependenciesCase =>
    \A key \in DOMAIN Get(schema, "dependencies").f :
      \A i \in 1..Len(ListedNames(key)) :
        Count(NotFound(key, ListedNames(key)[i])) =
          IF Prop(instance, key) # Undefined /\ Prop(instance, ToStr(ListedNames(key)[i])) = Undefined
          THEN Cardinality({j \in 1..Len(ListedNames(key)) : ListedNames(key)[j] = ListedNames(key)[i]})
          ELSE 0

\* C12's case: the key is present and both listed names are absent, each
\* reported once, below a path.
TwoNamesNotFound ==
  /\ DependenciesCase
  /\ path = "body"
  /\ Prop(instance, "p") # Undefined
  /\ Contributed = <<NotFound("p", Str("q")), NotFound("p", Str("r"))>>

\* The entry of key in dependencies is a schema.
SchemaDependency(key) == IsObject(Get(Get(schema, "dependencies"), key))

\* What validating the whole instance against the schema of the entry gives.
NestedErrors(key) ==
  validateSchema(instance, Get(Get(schema, "dependencies"), key), makeChild(path, key)).errors

\* The wrapping error of the entry.
DependencyWrapper(key) == Error(path, "does not meet dependency required by " \o makeChild(path, key))

\* What a schema entry is to contribute: nothing when the key is absent or
\* the nested validation has no error, else the wrapping error followed by
\* the nested errors.
SchemaDependencyErrors(key) ==
  IF Prop(instance, key) # Undefined /\ NestedErrors(key) # <<>>
  THEN <<DependencyWrapper(key)>> \o NestedErrors(key)
  ELSE <<>>

\* The errors contributed hold the block of errors, in one piece.
ContributedBlock(block) ==
  \E start \in 1..(Len(Contributed) + 1) :
    /\ start + Len(block) - 1 <= Len(Contributed)
    /\ SubSeq(Contributed, start, start + Len(block) - 1) = block

\* C13: a dependencies entry whose value is a schema and whose key is
\* present has the whole instance validated against that schema; k >= 1
\* nested errors give one wrapping 'does not meet dependency required by
\* <path>' followed by the k errors, no nested error gives nothing.
SchemaDependencies ==
  DependenciesCase =>
    \A key \in {k \in DOMAIN Get(schema, "dependencies").f : SchemaDependency(k)} :
      /\ ContributedBlock(SchemaDependencyErrors(key))
      /\ Count(DependencyWrapper(key)) = IF SchemaDependencyErrors(key) = <<>> THEN 0 ELSE 1
      /\ DOMAIN Get(schema, "dependencies").f = {key} => Contributed = SchemaDependencyErrors(key)

\* C13's case: the key is present and the instance, not the value at the
\* key, fails the schema of the entry.
WholeInstanceFailsDependency ==
  /\ DependenciesCase
  /\ SchemaDependency("p")
  /\ Prop(instance, "p") # Undefined
  /\ NestedErrors("p") # <<>>
  /\ validateSchema(Prop(instance, "p"), Get(Get(schema, "dependencies"), "p"), makeChild(path, "p")).errors
       = <<>>
  /\ Contributed = <<DependencyWrapper("p")>> \o NestedErrors("p")

\* The validator of one of the keywords has returned.
ReturnedOneOf(keywords) == pc = "returned" /\ op \in keywords

StringFormLength == IF instance.k = "string" THEN Len(instance.s) ELSE Len(ToString(instance.n))

OneOfLeavesSchema ==
  (pc = "returned" /\ HasOwn(original, "oneOf")) => schema = original

\* C16's case: the branches have mutually exclusive dependencies, found by
\* removing a 'not' from the scratch copy of a dependency, and the second
\* branch of the schema still has its 'not'.
NotKeptInSchema ==
  /\ Returned("oneOf")
  /\ instance # Undefined
  /\ original = Obj([oneOf |-> Arr(<<Branch1, Branch2>>)])
  /\ hasMutuallyExclusiveDependencies(Get(original, "oneOf").e) = "true"
  /\ schema = original
  /\ HasOwn(Get(Get(Get(Get(Get(schema, "oneOf").e[2], "dependencies"), "p"), "properties"), "q"), "not")

RECURSIVE HasDefault(_)

\* Some schema within the tree declares a default.
HasDefault(v) ==
  \/ IsObject(v) /\ (HasOwn(v, "default") \/ \E key \in DOMAIN v.f : HasDefault(v.f[key]))
  \/ IsArray(v) /\ \E i \in 1..Len(v.e) : HasDefault(v.e[i])

\* The validators that validate against nested schemas.
Nesting ==
  {"type", "anyOf", "allOf", "oneOf", "properties", "patternProperties", "additionalProperties",
   "items", "dependencies", "not"}

\* A keyword validator has handed back a result.
ValidatorReturned == pc = "returned" /\ op \in Keywords /\ ~Threw(ret)

\* C17: a keyword validator writes to the instance only to store, at the key
\* or index it validates, what the child validation handed back when that
\* is not what is stored there: the instance is left as it was when no
\* nested schema declares a default, and by every validator that has no
\* nested schema; no key is removed, no array changes its length, and
\* validateProperties leaves every key that properties does not declare as
\* it was, present or absent, and stores at a declared key what the
\* validation of its value handed back.
InstanceWrittenBackOnly ==
  ValidatorReturned =>
    /\ ~HasDefault(schema) => ret.instance = instance
    /\ op \notin Nesting => ret.instance = instance
    /\ ret.instance.k = instance.k
    /\ IsObject(instance) => DOMAIN instance.f \subseteq DOMAIN ret.instance.f
    /\ IsArray(instance) => Len(ret.instance.e) = Len(instance.e)
    /\ (op = "properties" /\ IsObject(instance)) =>
         \A key \in DOMAIN instance.f \cup DOMAIN ret.instance.f :
           Prop(ret.instance, key) =
             IF HasOwn(Get(schema, "properties"), key)
             THEN validateSchema(Prop(instance, key), Get(Get(schema, "properties"), key),
                                 makeChild(path, key)).instance
             ELSE Prop(instance, key)

\* C17's case: properties declares a default for p, the instance has no p,
\* and the default was stored at p, the rest of the instance left alone.
DefaultWrittenBack ==
  /\ Returned("properties")
  /\ IsObject(instance)
  /\ ~HasOwn(instance, "p")
  /\ HasOwn(instance, "q")
  /\ HasOwn(Get(Get(schema, "properties"), "p"), "default")
  /\ ret.instance = Put(instance, "p", Get(Get(Get(schema, "properties"), "p"), "default"))

\* The pairs of indices i < j of the array instance whose elements are equal.
DuplicatePairs ==
  {pair \in (1..Len(instance.e)) \X (1..Len(instance.e)) :
     pair[1] < pair[2] /\ instance.e[pair[1]] = instance.e[pair[2]]}

\* C18: validateUniqueItems reports 'contains duplicate item', once, iff the
\* instance is an array with two equal elements at indices i < j, however
\* many such pairs there are, and nothing for an instance that is no array.
DuplicateReportedOnce ==
  Returned("uniqueItems") =>
    Contributed = IF IsArray(instance) /\ DuplicatePairs # {}
                  THEN <<Error(path, "contains duplicate item")>>
                  ELSE <<>>

\* C18's case: the only equal elements are not next to each other.
DuplicateApart ==
  /\ Returned("uniqueItems")
  /\ IsArray(instance)
  /\ DuplicatePairs = {<<1, 3>>}
  /\ Contributed = <<Error(path, "contains duplicate item")>>

\* validateRequired was called on an object with a list of names.
RequiredListCase == Returned("required") /\ IsObject(instance) /\ IsArray(Get(schema, "required"))

\* The names required, in the order listed.
RequiredNames == Get(schema, "required").e

\* The i-th required name has no value, or null, on the instance.
Missing(i) == Prop(instance, RequiredNames[i].s).k \in {"undefined", "null"}

\* The 'is required' error of the i-th name, below the parent path.
IsRequired(i) == Error((IF path = "" THEN "" ELSE path \o ".") \o RequiredNames[i].s, "is required")

\* C19: on an object and a required list, validateRequired gives one 'is
\* required' error for every listed name whose value on the instance is
\* undefined or null, at '<parentPath>.<name>' ('<name>' at the empty path),
\* and none for a name present with a value that is not null.
RequiredListErrors ==
  RequiredListCase =>
    /\ \A i \in 1..Len(RequiredNames) : Count(IsRequired(i)) = IF Missing(i) THEN 1 ELSE 0
    /\ Len(Contributed) = Cardinality({i \in 1..Len(RequiredNames) : Missing(i)})

\* C19's case: of two names required below a path, the one that is null is
\* reported and the one that has a value is not.
NullReportedRequired ==
  /\ RequiredListCase
  /\ path = "body"
  /\ Prop(instance, "p") = Null
  /\ RequiredNames = <<Str("p"), Str("q")>>
  /\ Contributed = <<Error("body.p", "is required")>>

\* A step of addFormat(name, handler) leaves name mapped to handler and
\* every other name, the built-in ones included, mapped as before; no other
\* step changes the table.
RegistrationStep ==
  /\ (pc' = "returned" /\ op' = "addFormat") =>
       /\ DOMAIN FORMAT_REGEXPS' = DOMAIN FORMAT_REGEXPS \cup {instance'.s}
       /\ FORMAT_REGEXPS'[instance'.s] = schema'
       /\ \A name \in DOMAIN FORMAT_REGEXPS \ {instance'.s} : FORMAT_REGEXPS'[name] = FORMAT_REGEXPS[name]
  /\ ~(pc' = "returned" /\ op' = "addFormat") => FORMAT_REGEXPS' = FORMAT_REGEXPS

\* A format validation of a string or number goes by the handler the table
\* has for the format when it is made.
RegistrationVisible ==
  (/\ Returned("format")
   /\ instance.k \in {"string", "number"}
   /\ instance # Str("")
   /\ Get(schema, "format").s \in DOMAIN FORMAT_REGEXPS) =>
    ((Contributed = <<>>) <=>
       regexTest(FORMAT_REGEXPS[Get(schema, "format").s].source,
                 IF instance.k = "string" THEN instance.s ELSE ToString(instance.n)))

\* C20: after any sequence of addFormat calls the format table maps every
\* registered name to the handler of the latest call for it and every other
\* name, built-in ones included, to what it mapped before, and every format
\* validation made afterwards goes by the table as registered.
FormatRegistry == [][RegistrationStep]_vars /\ []RegistrationVisible

\* C20's case: the built-in alpha was registered anew, another format was
\* registered beside it, and a number then passed alpha by the new handler.
RegisteredFormatUsed ==
  /\ Returned("format")
  /\ FORMAT_REGEXPS["alpha"] = RegExp("^[0-9]+$")
  /\ "integer-positive" \in DOMAIN FORMAT_REGEXPS
  /\ Get(schema, "format") = Str("alpha")
  /\ instance = Num(1)
  /\ Contributed = <<>>

\* validateOneOf took the branch of mutually exclusive dependencies and the
\* number of members that validate the instance is not 1.
ExclusivePathInvalid ==
  /\ CombinatorReturned("oneOf")
  /\ hasMutuallyExclusiveDependencies(MemberList) = "true"
  /\ Cardinality(ValidMembers) # 1

\* An error is dependency-related: its message speaks of a dependency.
DependencyRelated(error) == Contains(error.message, "dependency")

\* The failing members with at least one error that is not
\* dependency-related.
FailingOtherwise ==
  {i \in 1..Len(MemberList) :
     \E j \in 1..Len(Against(MemberList[i]).errors) : ~DependencyRelated(Against(MemberList[i]).errors[j])}

\* The failing members none of whose errors is dependency-related.
FailingFreeOfDependency ==
  {i \in 1..Len(MemberList) :
     /\ ~Valid(Against(MemberList[i]))
     /\ \A j \in 1..Len(Against(MemberList[i]).errors) : ~DependencyRelated(Against(MemberList[i]).errors[j])}

\* What is reported is the result of the last member of a set of members,
\* or the generic message if the set is empty.
ReportsLastOf(members) ==
  IF members = {}
  THEN ret.kind = "string" /\ Len(Contributed) = 1
  ELSE ret.kind = "result" /\ \A i \in members : (\A j \in members : j <= i) => ret.errors = Against(MemberList[i]).errors

\* C21 as stated: on the path of mutually exclusive dependencies a failing
\* member is passed over only when all of its errors are dependency-related,
\* so that for an invalid instance the result reported is that of the last
\* failing member with an error that is not dependency-related.
PassedOverWhenAllDependency == ExclusivePathInvalid => ReportsLastOf(FailingOtherwise)

\* C21 as the code has it: a failing member is passed over as soon as one of
\* its errors is dependency-related, and for an invalid instance the result
\* reported is that of the last failing member none of whose errors is
\* dependency-related, the generic message if there is no such member.
PassedOverWhenAnyDependency == ExclusivePathInvalid => ReportsLastOf(FailingFreeOfDependency)

\* C21's case: the last member failed with its dependency error and the
\* errors nested in it, the first on something else, and the result reported
\* is the first member's.
MixedBranchPassedOver ==
  /\ ExclusivePathInvalid
  /\ Len(Against(MemberList[2]).errors) > 1
  /\ DependencyRelated(Against(MemberList[2]).errors[1])
  /\ ~DependencyRelated(Against(MemberList[2]).errors[2])
  /\ FailingFreeOfDependency = {1}
  /\ ret.errors = Against(MemberList[1]).errors

\* The dependencies a branch declares.
DependenciesOf(branch) == Get(branch, "dependencies")

\* The two sub-schemas contradict each other: with the first 'not' stripped
\* from each, one side at least had a 'not' and what is left is identical.
Contradict(subschema1, subschema2) ==
  /\ removeNot(subschema1).found \/ removeNot(subschema2).found
  /\ removeNot(subschema1).schema = removeNot(subschema2).schema

\* The dependency keys the two branches share.
SharedKeys(branch1, branch2) ==
  {key \in DOMAIN DependenciesOf(branch1).f : key \in DOMAIN DependenciesOf(branch2).f}

\* The list has exactly two branches, both declare dependencies, and the
\* sub-schemas of every dependency key they share contradict each other.
SharedKeysContradict(oneOf) ==
  /\ Len(oneOf) = 2
  /\ HasOwn(oneOf[1], "dependencies")
  /\ HasOwn(oneOf[2], "dependencies")
  /\ \A key \in SharedKeys(oneOf[1], oneOf[2]) :
       Contradict(Get(DependenciesOf(oneOf[1]), key), Get(DependenciesOf(oneOf[2]), key))

\* C22: validateOneOf takes the path of mutually exclusive dependencies if
\* and only if the list has exactly two branches, both declare dependencies
\* and the sub-schemas of every dependency key shared by both contradict each
\* other once the 'not' is stripped; every other list goes to the path
\* without dependencies or the counting path.
ExclusivePathIffSharedKeysContradict ==
  CombinatorReturned("oneOf") =>
    ((hasMutuallyExclusiveDependencies(MemberList) = "true") <=> SharedKeysContradict(MemberList))

\* No member of the list declares dependencies.
NoneDeclaresDependencies == \A i \in 1..Len(MemberList) : ~HasOwn(MemberList[i], "dependencies")

\* How the i-th member is named in the generic message: its id, its quoted
\* title, its $ref, or its place in the list counted from 0.
NamedAs(i) ==
  IF HasOwn(MemberList[i], "id") THEN "<" \o Get(MemberList[i], "id").s \o ">"
  ELSE IF HasOwn(MemberList[i], "title") THEN "\"" \o Get(MemberList[i], "title").s \o "\""
  ELSE IF HasOwn(MemberList[i], "$ref") THEN "<" \o Get(MemberList[i], "$ref").s \o ">"
  ELSE "[subschema " \o ToString(i - 1) \o "]"

RECURSIVE NamesFrom(_)

\* The names of the members from the i-th on, separated by commas.
NamesFrom(i) ==
  IF i > Len(MemberList) THEN ""
  ELSE IF i = Len(MemberList) THEN NamedAs(i)
  ELSE NamedAs(i) \o "," \o NamesFrom(i + 1)

\* The one generic error of a oneOf.
NotExactlyOne == Error(path, "is not exactly one from " \o NamesFrom(1))

\* C23: outside the path of mutually exclusive dependencies, when no member
\* declares dependencies and none validates, the errors reported are exactly
\* the members' errors concatenated in member order; when more than one
\* member validates, or on the counting path whenever the number of members
\* that validate is not 1, the report is exactly the one error 'is not
\* exactly one from' followed by every member's name in member order.
OneOfFailureShape ==
  (CombinatorReturned("oneOf") /\ hasMutuallyExclusiveDependencies(MemberList) # "true") =>
    /\ (NoneDeclaresDependencies /\ ValidMembers = {}) =>
         (ret.kind = "result" /\ Contributed = MemberErrors(1))
    /\ (\/ Cardinality(ValidMembers) > 1
        \/ ~NoneDeclaresDependencies /\ Cardinality(ValidMembers) # 1) =>
         Contributed = <<NotExactlyOne>>

\* The two members of the list of the call, the other way round.
Swapped == <<MemberList[2], MemberList[1]>>

\* validateOneOf accepts the instance of the call under a oneOf list.
Accepts(oneOf) == Contributed = <<>> <=> importErrors(<<>>, validateOneOf(instance, Obj([oneOf |-> Arr(oneOf)]), path), path) = <<>>

\* C24: for a oneOf of two branches, whatever their dependencies, the
\* decision of hasMutuallyExclusiveDependencies is the same for the branches
\* in either order, and validateOneOf accepts the same instances for both
\* orders.
BranchOrderImmaterial ==
  (CombinatorReturned("oneOf") /\ Len(MemberList) = 2) =>
    /\ hasMutuallyExclusiveDependencies(MemberList) = hasMutuallyExclusiveDependencies(Swapped)
    /\ Accepts(Swapped)

====
